---- MODULE Spec2Model ----
(***************************************************************************)
(* A model of the Capy compiler:                                           *)
(*   - the implicit-conversion rules of crates/hir_ty/src/cast.rs          *)
(*     (max_cast, can_fit), checked under SpecCast;                        *)
(*   - lowering, crates/hir/src/body.rs (Ctx), checked under SpecLower     *)
(*     and the specifications for literals, arrays, unique ids, extern     *)
(*     lambdas, imports, globals and nesting;                              *)
(*   - the code-generation driver, crates/codegen/src/gen.rs, checked      *)
(*     under SpecGen, FairSpecGen and SpecMain;                            *)
(*   - the comptime cache as crates/codegen/src/lib.rs drives it, checked  *)
(*     under SpecComptime;                                                 *)
(*   - the parser's markers, crates/parser/src/parser/marker.rs, checked   *)
(*     under SpecMarkers.                                                  *)
(***************************************************************************)
EXTENDS Integers, Sequences, FiniteSets, TLC

VARIABLES
    \* ---- hir_ty: cast.rs ----
    resolved_arena,  \* Arena<ResolvedTy>: the sub-types of composite types
    cast_call,       \* the last call of can_fit / max_cast: arguments and result
    \* ---- hir: body.rs, struct Ctx ----
    root,            \* ast::Root: the top-level definitions still to be lowered
    index,           \* Index: the names the file defines at top level
    bodies,          \* Bodies: the arenas and the maps of the globals
    diagnostics,     \* Vec<LoweringDiagnostic>
    scopes,          \* Vec<FxHashMap<Key, Idx<LocalDef>>>
    params,          \* FxHashMap<Key, u32>: the parameters of the current lambda
    stack,           \* the activations of lower_* that wait for a sub-expression
    ret,             \* Option<Idx<Expr>>: the result of the lower_expr just finished
    \* ---- history of the lowering, read by the properties only ----
    def_log,         \* the local definitions in source order, with block and body
    opened,          \* how many blocks and bodies were entered
    last,            \* the last step and the identifier it resolved
    \* ---- the compilation: the files and what outlives the lowering of one ----
    modules,         \* the files still to be lowered, after the current one
    world_bodies,    \* WorldBodies: the Bodies of the files already lowered
    uid_gen,         \* UIDGenerator: the next unique id
    fake_file_system,\* lower()'s fake_file_system: imports are not looked up on disk
    disk,            \* the paths that exist on disk as regular files
    \* ---- codegen: gen.rs, struct CodeGen ----
    program,         \* the typed functions: is_extern, the calls of the body, return type
    functions_to_compile, \* VecDeque<Fqn>: the worklist
    functions,       \* FxHashMap<Fqn, FuncId>
    module,          \* the backend Module: what is declared and what is defined
    driver,          \* where finish() stands: the activations of compile_queued_functions
    pushes,          \* history: how often each Fqn was put on the worklist
    \* ---- codegen: the comptime cache ----
    comptime_results,\* FxHashMap<FQComptime, ComptimeResult>
    comptime_runs,   \* history: how often each comptime block was run
    comptime_stage,  \* the pass of the compilation that demands comptime values
    \* ---- parser: marker.rs ----
    events,          \* Vec<Option<Event>>
    markers,         \* the Markers that are not completed yet
    completed,       \* the CompletedMarkers
    started,         \* history: how many Markers were made
    parser_last      \* the last call on a marker

castVars == <<resolved_arena, cast_call>>

lowerVars == <<root, index, bodies, diagnostics, scopes, params, stack, ret, def_log, opened, last>>

worldVars == <<modules, world_bodies, uid_gen, fake_file_system, disk>>

genVars == <<program, functions_to_compile, functions, module, driver, pushes>>

comptimeVars == <<comptime_results, comptime_runs, comptime_stage>>

parserVars == <<events, markers, completed, started, parser_last>>

laterVars == <<genVars, comptimeVars, parserVars>>

vars == <<castVars, lowerVars, worldVars, laterVars>>

(***************************************************************************)
(* Bounds                                                                  *)
(***************************************************************************)
\* bit widths range over 0..MaxWidth; width 0 is the weak (literal) integer
MaxWidth == 2
\* number of sub-types allocated in the arena
MaxArena == 2
\* number of expressions lowered into Bodies.exprs
MaxExprs == 4
\* number of parameters of a lambda
MaxParams == 1

Widths == 0 .. MaxWidth
\* the sizes of the array types that are built
ArraySizes == {1, 2}

(***************************************************************************)
(* ResolvedTy                                                              *)
(***************************************************************************)
Unknown == [tag |-> "Unknown"]
Bool == [tag |-> "Bool"]
IInt(w) == [tag |-> "IInt", w |-> w]
UInt(w) == [tag |-> "UInt", w |-> w]
Float(w) == [tag |-> "Float", w |-> w]
Pointer(sub) == [tag |-> "Pointer", sub_ty |-> sub]
Array(size, sub) == [tag |-> "Array", size |-> size, sub_ty |-> sub]
Slice(sub) == [tag |-> "Slice", sub_ty |-> sub]

\* the types without sub-types
ScalarTys ==
    {Unknown, Bool, Float(MaxWidth)}
        \cup {IInt(w) : w \in Widths} \cup {UInt(w) : w \in Widths}

\* the types whose sub-type is one of the first n entries of the arena
\* (an Idx<ResolvedTy> is the 0-based position of the entry)
CompositeTys(n) ==
    {Pointer(i) : i \in 0 .. n - 1}
        \cup {Array(s, i) : s \in ArraySizes, i \in 0 .. n - 1}
        \cup {Slice(i) : i \in 0 .. n - 1}

ResolvedTys(n) == ScalarTys \cup CompositeTys(n)

\* resolved_arena[idx]
ArenaGet(arena, idx) == arena[idx + 1]

\* Option<ResolvedTy>
None == <<>>
Some(ty) == <<ty>>

IsIInt(ty) == ty.tag = "IInt"
IsUInt(ty) == ty.tag = "UInt"
IsInt(ty) == IsIInt(ty) \/ IsUInt(ty)

(***************************************************************************)
(* max_cast                                                                *)
(***************************************************************************)
Narrower(first_bit_width, second_bit_width) ==
    IF first_bit_width <= second_bit_width THEN first_bit_width ELSE second_bit_width

\* u32::max
Wider(first_bit_width, second_bit_width) ==
    IF first_bit_width >= second_bit_width THEN first_bit_width ELSE second_bit_width

\* the arm for one signed and one unsigned integer
MaxCastMixedLoose(signed_bit_width, unsigned_bit_width) ==
    IF signed_bit_width >= unsigned_bit_width
    THEN Some(IInt(signed_bit_width))
    ELSE None

MaxCastMixed(signed_bit_width, unsigned_bit_width) ==
    IF signed_bit_width > unsigned_bit_width
    THEN Some(IInt(signed_bit_width))
    ELSE None

\* the arm (Unknown, other) | (other, Unknown)
MaxCastUnknownFails(first, second) == None

MaxCastUnknown(first, second) ==
    IF first = Unknown THEN Some(second) ELSE Some(first)

\* the match arms are tried in source order
MaxCast(first, second) ==
    IF first = second THEN Some(first)
    ELSE IF first = UInt(0) /\ second = UInt(0) THEN Some(UInt(0))
    ELSE IF first \in {IInt(0), UInt(0)} /\ second \in {IInt(0), UInt(0)}
        THEN Some(IInt(0))
    ELSE IF IsIInt(first) /\ IsIInt(second) THEN Some(IInt(Wider(first.w, second.w)))
    ELSE IF IsUInt(first) /\ IsUInt(second) THEN Some(UInt(Wider(first.w, second.w)))
    ELSE IF IsIInt(first) /\ IsUInt(second) THEN MaxCastMixed(first.w, second.w)
    ELSE IF IsUInt(first) /\ IsIInt(second) THEN MaxCastMixed(second.w, first.w)
    ELSE IF first = Unknown \/ second = Unknown THEN MaxCastUnknown(first, second)
    ELSE None

(***************************************************************************)
(* can_fit                                                                 *)
(***************************************************************************)
\* can_fit either returns a bool or fails its assertion (a panic)
Ok(b) == [ok |-> TRUE, ret |-> b]
AssertFailed == [ok |-> FALSE]

\* `found == expected`
SameTyNever(found, expected) == FALSE

SameTy(found, expected) == found = expected

\* IInt -> IInt and UInt -> UInt
FitSameSignNoWeak(found_bit_width, expected_bit_width) ==
    found_bit_width <= expected_bit_width

FitSameSign(found_bit_width, expected_bit_width) ==
    expected_bit_width = 0 \/ found_bit_width <= expected_bit_width

\* IInt -> UInt: only the weak uint takes a signed integer
FitSignedIntoUnsignedNever(expected_bit_width) == FALSE

FitSignedIntoUnsigned(expected_bit_width) == expected_bit_width = 0

\* UInt -> IInt
FitUnsignedIntoSignedLoose(found_bit_width, expected_bit_width) ==
    expected_bit_width = 0 \/ found_bit_width <= expected_bit_width

FitUnsignedIntoSigned(found_bit_width, expected_bit_width) ==
    expected_bit_width = 0 \/ found_bit_width < expected_bit_width

RECURSIVE CanFit(_, _, _)
CanFit(arena, found, expected) ==
    IF found = Unknown \/ expected = Unknown THEN AssertFailed
    ELSE IF SameTy(found, expected) THEN Ok(TRUE)
    ELSE IF (IsIInt(found) /\ IsIInt(expected)) \/ (IsUInt(found) /\ IsUInt(expected))
        THEN Ok(FitSameSign(found.w, expected.w))
    ELSE IF IsIInt(found) /\ IsUInt(expected) THEN Ok(FitSignedIntoUnsigned(expected.w))
    ELSE IF IsUInt(found) /\ IsIInt(expected)
        THEN Ok(FitUnsignedIntoSigned(found.w, expected.w))
    ELSE IF found.tag = "Pointer" /\ expected.tag = "Pointer"
        THEN CanFit(arena, ArenaGet(arena, found.sub_ty), ArenaGet(arena, expected.sub_ty))
    ELSE IF found.tag = "Array" /\ expected.tag = "Array"
        THEN IF found.size = expected.size
             THEN CanFit(arena, ArenaGet(arena, found.sub_ty),
                         ArenaGet(arena, expected.sub_ty))
             ELSE Ok(FALSE)
    ELSE Ok(FALSE)

(***************************************************************************)
(* primitive_castable                                                      *)
(***************************************************************************)
\* the pattern ResolvedTy::Bool | ResolvedTy::IInt(_) | ResolvedTy::UInt(_)
IsBoolOrInt(ty) == ty.tag \in {"Bool", "IInt", "UInt"}

\* a primitive_castable whose target pattern leaves out Bool
PrimitiveCastableIntoInt(from, to) == IsBoolOrInt(from) /\ IsInt(to)

PrimitiveCastable(from, to) == IsBoolOrInt(from) /\ IsBoolOrInt(to)

(***************************************************************************)
(* Lowering: crates/hir/src/body.rs                                        *)
(***************************************************************************)
\* the identifiers of the file being lowered; "i32" is a primitive type
Names == {"a", "i32"}
\* the name of a definition whose name token is missing
NoName == ""
\* a top-level definition: its name and whether it carries a type annotation
Def(name, has_ty) == [name |-> name, has_ty |-> has_ty]
\* the files: their top-level definitions, in source order
Roots ==
    {<<Def("main", FALSE)>>,
     <<Def("main", FALSE), Def("a", TRUE), Def("i32", FALSE)>>}

\* the identifiers PrimitiveTy::parse accepts
PrimitiveNames ==
    {"bool", "char", "str", "type", "any", "void",
     "i8", "i16", "i32", "i64", "i128", "isize",
     "u8", "u16", "u32", "u64", "u128", "usize", "f32", "f64"}

\* FxHashMap: a function on the set of its keys
EmptyMap == [k \in {} |-> 0]
MapInsert(map, key, value) ==
    [k \in DOMAIN map \cup {key} |-> IF k = key THEN value ELSE map[k]]

ArenaAllocInFront(arena, value) == <<value>> \o arena

\* Arena::alloc appends; the new Idx is the 0-based position
ArenaAlloc(arena, value) == Append(arena, value)
NextIdx(arena) == Len(arena)

\* Expr
ExprMissing == [tag |-> "Missing"]
ExprLocal(def) == [tag |-> "Local", def |-> def]
ExprParam(idx) == [tag |-> "Param", idx |-> idx]
ExprSelfGlobal(name) == [tag |-> "SelfGlobal", name |-> name]
ExprPrimitiveTy(ty) == [tag |-> "PrimitiveTy", ty |-> ty]
ExprBlock(block_stmts, tail_expr) ==
    [tag |-> "Block", stmts |-> block_stmts, tail_expr |-> tail_expr]
ExprLambda(lambda) == [tag |-> "Lambda", lambda |-> lambda]
ExprComptime(comptime) == [tag |-> "Comptime", comptime |-> comptime]

\* Stmt
StmtExpr(expr) == [tag |-> "Expr", expr |-> expr]
StmtLocalDef(def) == [tag |-> "LocalDef", def |-> def]

\* LoweringDiagnosticKind::UndefinedRef
UndefinedRef(name) == [kind |-> "UndefinedRef", name |-> name]

\* TextRange: the range of an expression in the text of the file.  The text
\* is lowered from left to right, so the position of an expression is told
\* by the arena index of the first expression allocated inside it (its
\* start) and by its own index (its end).
TextRange(start, end) == [start |-> start, end |-> end]

\* Bodies, as Ctx::new builds it
NewBodies ==
    [local_defs |-> <<>>, stmts |-> <<>>, exprs |-> <<>>,
     global_tys |-> EmptyMap, global_bodies |-> EmptyMap,
     lambdas |-> <<>>, comptimes |-> <<>>, imports |-> {},
     expr_ranges |-> EmptyMap]

MaxOf(set) == CHOOSE x \in set : \A y \in set : y <= x

\* Ctx::look_up_in_current_scope: the innermost scope holding the name
LookUpInCurrentScope(scope_stack, name) ==
    LET holding == {i \in 1 .. Len(scope_stack) : name \in DOMAIN scope_stack[i]}
    IN  IF holding = {} THEN None ELSE Some(scope_stack[MaxOf(holding)][name])

\* Ctx::look_up_param
LookUpParam(param_map, name) ==
    IF name \in DOMAIN param_map THEN Some(param_map[name]) ELSE None

\* Ctx::insert_into_current_scope
InsertIntoCurrentScope(scope_stack, name, value) ==
    [scope_stack EXCEPT ![Len(scope_stack)] = MapInsert(@, name, value)]

\* Ctx::create_new_child_scope
CreateNewChildScope(scope_stack) == Append(scope_stack, EmptyMap)

\* a destroy_current_scope that leaves the scope on the stack
KeepCurrentScope(scope_stack) == scope_stack

\* Ctx::destroy_current_scope
DestroyCurrentScope(scope_stack) ==
    IF scope_stack = <<>> THEN <<>> ELSE SubSeq(scope_stack, 1, Len(scope_stack) - 1)

\* a body that keeps the scopes of the code around it
CapturedScopes(scope_stack) == scope_stack

\* mem::take(&mut self.scopes) on entering a lambda or comptime body
TakenScopes(scope_stack) == <<>>

\* mem::take(&mut self.params) on entering a comptime body
TakenParams(param_map) == EmptyMap

\* Index::get_definition(name).is_some()
IndexHas(file_index, name) == name \in file_index

\* PrimitiveTy::parse
PrimitiveTyParse(name) == IF name \in PrimitiveNames THEN Some(name) ELSE None

\* a lower_var_ref that looks in the index before the parameters
LowerVarRefGlobalFirst(name, scope_stack, param_map, file_index) ==
    LET def == LookUpInCurrentScope(scope_stack, name)
        param == LookUpParam(param_map, name)
    IN  IF def # None THEN [expr |-> ExprLocal(def[1]), diags |-> <<>>]
        ELSE IF IndexHas(file_index, name)
            THEN [expr |-> ExprSelfGlobal(name), diags |-> <<>>]
        ELSE IF param # None THEN [expr |-> ExprParam(param[1]), diags |-> <<>>]
        ELSE IF PrimitiveTyParse(name) # None
            THEN [expr |-> ExprPrimitiveTy(PrimitiveTyParse(name)[1]), diags |-> <<>>]
        ELSE [expr |-> ExprMissing, diags |-> <<UndefinedRef(name)>>]

\* Ctx::lower_var_ref: the lowered expression and the diagnostics it pushes
LowerVarRef(name, scope_stack, param_map, file_index) ==
    LET def == LookUpInCurrentScope(scope_stack, name)
        param == LookUpParam(param_map, name)
    IN  IF def # None THEN [expr |-> ExprLocal(def[1]), diags |-> <<>>]
        ELSE IF param # None THEN [expr |-> ExprParam(param[1]), diags |-> <<>>]
        ELSE IF IndexHas(file_index, name)
            THEN [expr |-> ExprSelfGlobal(name), diags |-> <<>>]
        ELSE IF PrimitiveTyParse(name) # None
            THEN [expr |-> ExprPrimitiveTy(PrimitiveTyParse(name)[1]), diags |-> <<>>]
        ELSE [expr |-> ExprMissing, diags |-> <<UndefinedRef(name)>>]

(***************************************************************************)
(* The recursion of Ctx::lower_* as a stack of activations.  A frame is    *)
(* the activation of one lower_* method that waits for a sub-expression;   *)
(* `ret` is the Idx<Expr> a finished lower_expr hands to the frame on top. *)
(***************************************************************************)
Top == stack[Len(stack)]
Pop(s) == SubSeq(s, 1, Len(s) - 1)
ReplaceTop(s, frame) == [s EXCEPT ![Len(s)] = frame]

\* frames whose method allocates one more expression when it returns
AllocatingKinds ==
    {"block", "lambda_params", "lambda_ret", "lambda_body", "extern_body",
     "comptime",
     "array_ty", "array_items", "array_size", "distinct", "struct_decl"}
PendingAllocs == Cardinality({i \in 1 .. Len(stack) : stack[i].kind \in AllocatingKinds})

\* frames that wait for the expression lower_expr is asked to lower next
AwaitingKinds ==
    {"global_ty", "global", "block", "define_ty", "define", "param",
     "lambda_ret", "lambda_body", "comptime", "array_ty", "array_items",
     "distinct", "struct_field"}

\* frames that wait for a type annotation: the files lowered here write a
\* type as an identifier
TypeKinds ==
    {"global_ty", "define_ty", "param", "lambda_ret", "array_ty", "distinct",
     "struct_field"}

\* lower_expr may start on a sub-expression
CanStartExpr ==
    /\ stack # <<>>
    /\ ret = None
    /\ Top.kind \in AwaitingKinds
    /\ Len(bodies.exprs) + PendingAllocs < MaxExprs

\* lower_expr may start on an expression that is not an identifier
CanStartValue == CanStartExpr /\ Top.kind \notin TypeKinds

\* the lambda or comptime body being lowered: its frame's position, 0 at
\* the level of the globals
BodyFrames == {i \in 1 .. Len(stack) : stack[i].kind \in {"lambda_body", "comptime"}}
CurBodyFrame == IF BodyFrames = {} THEN 0 ELSE MaxOf(BodyFrames)
CurBody == IF CurBodyFrame = 0 THEN 0 ELSE stack[CurBodyFrame].id
\* the blocks that are open
OpenBlocks == {stack[i].id : i \in {j \in 1 .. Len(stack) : stack[j].kind = "block"}}

Step(op, ref) == [op |-> op, ref |-> ref]

\* the set of the elements of a sequence
Range(seq) == {seq[i] : i \in 1 .. Len(seq)}

\* Ctx::new, for a file whose index holds the names of its definitions
InitCtx(file) ==
    /\ root = file
    /\ index = {def.name : def \in Range(file)} \ {NoName}
    /\ bodies = NewBodies
    /\ diagnostics = <<>>
    /\ scopes = <<EmptyMap>>
    /\ params = EmptyMap
    /\ stack = <<>>
    /\ ret = None
    /\ def_log = <<>>
    /\ opened = 0
    /\ last = Step("new", "")

\* UIDGenerator::default()
NewUidGen == 0

\* the compilation starts: a new generator, no Bodies yet, and lower() is
\* called on the first file; the files import nothing, so that the disk
\* is never looked at
InitWorld(files) ==
    /\ fake_file_system = TRUE
    /\ disk = {}
    /\ uid_gen = NewUidGen
    /\ world_bodies = <<>>
    /\ modules = Tail(files)
    /\ InitCtx(Head(files))

\* lower() is called on one of the files
InitLower ==
    \E file \in Roots : InitWorld(<<file>>)

\* no global is taken for lowered already
NeverSeen(global_bodies, name) == FALSE

\* lower_global: a global with this name was lowered already
AlreadySeen(global_bodies, name) == name \in DOMAIN global_bodies

\* lower_global returns at once: the definition has no name, or a global
\* with its name was lowered already
SkipsGlobal(def) ==
    def.name = NoName \/ AlreadySeen(bodies.global_bodies, def.name)

\* lower(): the loop takes the next definition; lower_global, up to the
\* lowering of the annotation or of the value
LowerGlobal ==
    /\ stack = <<>>
    /\ root # <<>>
    /\ SkipsGlobal(Head(root)) \/ Len(bodies.exprs) < MaxExprs
    /\ root' = Tail(root)
    /\ IF SkipsGlobal(Head(root))
       THEN UNCHANGED stack
       ELSE stack' = <<[kind |-> IF Head(root).has_ty THEN "global_ty" ELSE "global",
                        name |-> Head(root).name,
                        ty_annotation |-> Head(root).has_ty]>>
    /\ last' = Step("lower_global", Head(root))
    /\ UNCHANGED <<castVars, worldVars, laterVars, index, bodies, diagnostics, scopes, params, ret, def_log, opened>>

\* lower_global: the annotation is lowered
GlobalTy ==
    /\ stack # <<>> /\ Top.kind = "global_ty" /\ ret # None
    /\ bodies' = [bodies EXCEPT !.global_tys = MapInsert(@, Top.name, ret[1])]
    /\ stack' = ReplaceTop(stack, [Top EXCEPT !.kind = "global"])
    /\ ret' = None
    /\ last' = Step("global_ty", "")
    /\ UNCHANGED <<castVars, worldVars, laterVars, root, index, diagnostics, scopes, params, def_log, opened>>

\* a global whose value is Missing is left out
InsertUnlessMissing(global_bodies, name, body, exprs) ==
    IF exprs[body + 1] = ExprMissing THEN global_bodies
    ELSE MapInsert(global_bodies, name, body)

\* lower_global: self.bodies.global_bodies.insert(name, body)
InsertGlobalBody(global_bodies, name, body, exprs) ==
    MapInsert(global_bodies, name, body)

\* lower_global: the value is lowered
GlobalEnd ==
    /\ stack # <<>> /\ Top.kind = "global" /\ ret # None
    /\ bodies' = [bodies EXCEPT
           !.global_bodies = InsertGlobalBody(@, Top.name, ret[1], bodies.exprs)]
    /\ stack' = Pop(stack)
    /\ ret' = None
    /\ last' = Step("global_end", "")
    /\ UNCHANGED <<castVars, worldVars, laterVars, root, index, diagnostics, scopes, params, def_log, opened>>

\* lower_expr on a VarRef: lower_var_ref, then the allocation
VarRef(name) ==
    /\ CanStartExpr
    /\ LET lowered == LowerVarRef(name, scopes, params, index)
       IN  /\ bodies' = [bodies EXCEPT
                            !.expr_ranges = MapInsert(@, NextIdx(bodies.exprs), TextRange(NextIdx(bodies.exprs), NextIdx(bodies.exprs))),
                            !.exprs = ArenaAlloc(@, lowered.expr)]
           /\ diagnostics' = diagnostics \o lowered.diags
    /\ ret' = Some(NextIdx(bodies.exprs))
    /\ last' = Step("var_ref", name)
    /\ UNCHANGED <<castVars, worldVars, laterVars, root, index, scopes, params, stack, def_log, opened>>

\* lower_block: entry
BlockOpen ==
    /\ CanStartValue
    /\ scopes' = CreateNewChildScope(scopes)
    /\ stack' = Append(stack, [start |-> NextIdx(bodies.exprs), kind |-> "block", id |-> opened + 1, stmts |-> <<>>])
    /\ opened' = opened + 1
    /\ last' = Step("block_open", "")
    /\ UNCHANGED <<castVars, worldVars, laterVars, root, index, bodies, diagnostics, params, ret, def_log>>

\* lower_block: an expression statement is lowered and allocated
BlockStmt ==
    /\ stack # <<>> /\ Top.kind = "block" /\ ret # None
    /\ bodies' = [bodies EXCEPT !.stmts = ArenaAlloc(@, StmtExpr(ret[1]))]
    /\ stack' = ReplaceTop(stack, [Top EXCEPT !.stmts = Append(@, NextIdx(bodies.stmts))])
    /\ ret' = None
    /\ last' = Step("block_stmt", "")
    /\ UNCHANGED <<castVars, worldVars, laterVars, root, index, diagnostics, scopes, params, def_log, opened>>

\* lower_block: exit, with the tail expression just lowered or without one
BlockEnd ==
    /\ stack # <<>> /\ Top.kind = "block"
    /\ scopes' = DestroyCurrentScope(scopes)
    /\ bodies' = [bodies EXCEPT
                     !.expr_ranges = MapInsert(@, NextIdx(bodies.exprs), TextRange(Top.start, NextIdx(bodies.exprs))),
                     !.exprs = ArenaAlloc(@, ExprBlock(Top.stmts, ret))]
    /\ stack' = Pop(stack)
    /\ ret' = Some(NextIdx(bodies.exprs))
    /\ last' = Step("block_end", "")
    /\ UNCHANGED <<castVars, worldVars, laterVars, root, index, diagnostics, params, def_log, opened>>

\* lower_local_define: entry, up to the lowering of the annotation or value
DefineBegin(name, has_ty) ==
    /\ CanStartValue
    /\ Top.kind = "block"
    /\ stack' = Append(stack, [start |-> NextIdx(bodies.exprs), kind |-> IF has_ty THEN "define_ty" ELSE "define",
                               name |-> name, ty |-> None])
    /\ last' = Step("define_begin", "")
    /\ UNCHANGED <<castVars, worldVars, laterVars, root, index, bodies, diagnostics, scopes, params, ret, def_log, opened>>

\* lower_local_define: the annotation is lowered
DefineTy ==
    /\ stack # <<>> /\ Top.kind = "define_ty" /\ ret # None
    /\ stack' = ReplaceTop(stack, [kind |-> "define", name |-> Top.name, ty |-> ret])
    /\ ret' = None
    /\ last' = Step("define_ty", "")
    /\ UNCHANGED <<castVars, worldVars, laterVars, root, index, bodies, diagnostics, scopes, params, def_log, opened>>

\* lower_local_define: the value is lowered; the definition is allocated and
\* enters the current scope; lower_block allocates the statement
DefineEnd ==
    /\ stack # <<>> /\ Top.kind = "define" /\ ret # None
    /\ LET id == NextIdx(bodies.local_defs)
           block == stack[Len(stack) - 1]
       IN  /\ bodies' = [bodies EXCEPT
                  !.local_defs = ArenaAlloc(@, [name |-> Top.name, ty |-> Top.ty,
                                                value |-> ret[1]]),
                  !.stmts = ArenaAlloc(@, StmtLocalDef(id))]
           /\ scopes' = InsertIntoCurrentScope(scopes, Top.name, id)
           /\ stack' = ReplaceTop(Pop(stack),
                                  [block EXCEPT !.stmts = Append(@, NextIdx(bodies.stmts))])
           /\ def_log' = Append(def_log, [name |-> Top.name, def |-> id,
                                          block |-> block.id, body |-> CurBody])
    /\ ret' = None
    /\ last' = Step("define_end", "")
    /\ UNCHANGED <<castVars, worldVars, laterVars, root, index, diagnostics, params, opened>>

\* history: the context in which lower_lambda or lower_comptime is called
AtCall ==
    [scopes |-> scopes, params |-> params, local_defs |-> NextIdx(bodies.local_defs)]

\* lower_lambda: entry; a lambda that is the value of a global allows extern;
\* has_extern tells whether the lambda is written with `extern`
LambdaBegin(has_extern) ==
    /\ CanStartValue
    /\ stack' = Append(stack, [start |-> NextIdx(bodies.exprs), kind |-> "lambda_params", params |-> <<>>,
                               param_keys |-> EmptyMap,
                               allow_extern |-> (Top.kind = "global"),
                               has_extern |-> has_extern,
                               at_call |-> AtCall])
    /\ last' = Step("lambda_begin", "")
    /\ UNCHANGED <<castVars, worldVars, laterVars, root, index, bodies, diagnostics, scopes, params, ret, def_log, opened>>

\* lower_lambda: the next parameter, up to the lowering of its type
LambdaParam(name) ==
    /\ stack # <<>> /\ Top.kind = "lambda_params" /\ ret = None
    /\ Len(Top.params) < MaxParams
    /\ Len(bodies.exprs) + PendingAllocs < MaxExprs
    /\ stack' = Append(stack, [start |-> NextIdx(bodies.exprs), kind |-> "param", name |-> name])
    /\ last' = Step("lambda_param", "")
    /\ UNCHANGED <<castVars, worldVars, laterVars, root, index, bodies, diagnostics, scopes, params, ret, def_log, opened>>

\* lower_lambda: the parameter's type is lowered; the parameter is pushed and
\* its name keyed to its position
ParamEnd ==
    /\ stack # <<>> /\ Top.kind = "param" /\ ret # None
    /\ LET lambda == stack[Len(stack) - 1]
           idx == Len(lambda.params)
       IN  stack' = ReplaceTop(Pop(stack),
                [lambda EXCEPT
                    !.params = Append(@, [name |-> Top.name, ty |-> ret[1]]),
                    !.param_keys = MapInsert(@, Top.name, idx)])
    /\ ret' = None
    /\ last' = Step("param_end", "")
    /\ UNCHANGED <<castVars, worldVars, laterVars, root, index, bodies, diagnostics, scopes, params, def_log, opened>>

\* lower_lambda: the return type is about to be lowered
LambdaReturnTy ==
    /\ stack # <<>> /\ Top.kind = "lambda_params" /\ ret = None
    /\ Len(bodies.exprs) + PendingAllocs < MaxExprs
    /\ stack' = ReplaceTop(stack, [Top EXCEPT !.kind = "lambda_ret"])
    /\ last' = Step("lambda_return_ty", "")
    /\ UNCHANGED <<castVars, worldVars, laterVars, root, index, bodies, diagnostics, scopes, params, ret, def_log, opened>>

\* LoweringDiagnosticKind::NonGlobalExtern
NonGlobalExtern == [kind |-> "NonGlobalExtern"]

\* every `extern` is reported, wherever the lambda stands
EveryExternDiagnostics(allow_extern, has_extern) ==
    IF has_extern THEN <<NonGlobalExtern>> ELSE <<>>

\* lower_lambda: what it reports about `extern`
NonGlobalExternDiagnostics(allow_extern, has_extern) ==
    IF ~allow_extern /\ has_extern THEN <<NonGlobalExtern>> ELSE <<>>

\* lower_lambda: `extern` is checked; the parameters and scopes are swapped
\* out for the body.  An extern lambda is written without a body.
LambdaBody ==
    /\ stack # <<>>
    /\ \/ Top.kind = "lambda_params" /\ ret = None
       \/ Top.kind = "lambda_ret" /\ ret # None
    /\ Top.has_extern => Len(bodies.exprs) + PendingAllocs < MaxExprs
    /\ diagnostics' =
           diagnostics \o NonGlobalExternDiagnostics(Top.allow_extern, Top.has_extern)
    /\ stack' = ReplaceTop(stack,
            [start |-> Top.start,
             kind |-> IF Top.has_extern THEN "extern_body" ELSE "lambda_body",
             id |-> opened + 1, params |-> Top.params,
             return_ty |-> ret, allow_extern |-> Top.allow_extern,
             has_extern |-> Top.has_extern,
             at_call |-> Top.at_call,
             old_params |-> params, old_scopes |-> scopes])
    /\ params' = Top.param_keys
    /\ scopes' = TakenScopes(scopes)
    /\ opened' = opened + 1
    /\ ret' = None
    /\ last' = Step("lambda_body", "")
    /\ UNCHANGED <<castVars, worldVars, laterVars, root, index, bodies, def_log>>

\* lower_lambda: lower_expr on the body an extern lambda does not have
\* allocates Expr::Missing
ExternBody ==
    /\ stack # <<>> /\ Top.kind = "extern_body" /\ ret = None
    /\ bodies' = [bodies EXCEPT !.exprs = ArenaAlloc(@, ExprMissing)]
    /\ stack' = ReplaceTop(stack, [Top EXCEPT !.kind = "lambda_body"])
    /\ ret' = Some(NextIdx(bodies.exprs))
    /\ last' = Step("extern_body", "")
    /\ UNCHANGED <<castVars, worldVars, laterVars, root, index, diagnostics, scopes, params, def_log, opened>>

\* the context of the body stays when the body is lowered
LambdaEndInBodyContext ==
    /\ stack # <<>> /\ Top.kind = "lambda_body" /\ ret # None
    /\ bodies' = [bodies EXCEPT
           !.lambdas = ArenaAlloc(@, [params |-> Top.params, return_ty |-> Top.return_ty,
                                      body |-> ret[1],
                                      is_extern |-> Top.has_extern]),
           !.expr_ranges = MapInsert(@, NextIdx(bodies.exprs), TextRange(Top.start, NextIdx(bodies.exprs))),
           !.exprs = ArenaAlloc(@, ExprLambda(NextIdx(bodies.lambdas)))]
    /\ stack' = Pop(stack)
    /\ ret' = Some(NextIdx(bodies.exprs))
    /\ last' = Step("lambda_end", "")
    /\ UNCHANGED <<castVars, worldVars, laterVars, root, index, diagnostics, def_log, opened, params, scopes>>

\* lower_lambda: the body is lowered; the context is restored and the Lambda
\* and its expression are allocated
LambdaEnd ==
    /\ stack # <<>> /\ Top.kind = "lambda_body" /\ ret # None
    /\ params' = Top.old_params
    /\ scopes' = Top.old_scopes
    /\ bodies' = [bodies EXCEPT
           !.lambdas = ArenaAlloc(@, [params |-> Top.params, return_ty |-> Top.return_ty,
                                      body |-> ret[1],
                                      is_extern |-> Top.has_extern]),
           !.expr_ranges = MapInsert(@, NextIdx(bodies.exprs), TextRange(Top.start, NextIdx(bodies.exprs))),
           !.exprs = ArenaAlloc(@, ExprLambda(NextIdx(bodies.lambdas)))]
    /\ stack' = Pop(stack)
    /\ ret' = Some(NextIdx(bodies.exprs))
    /\ last' = Step("lambda_end", "")
    /\ UNCHANGED <<castVars, worldVars, laterVars, root, index, diagnostics, def_log, opened>>

\* lower_comptime: entry; the parameters and scopes are swapped out
ComptimeBegin ==
    /\ CanStartValue
    /\ stack' = Append(stack, [start |-> NextIdx(bodies.exprs), kind |-> "comptime", id |-> opened + 1,
                               at_call |-> AtCall,
                               old_params |-> params, old_scopes |-> scopes])
    /\ params' = TakenParams(params)
    /\ scopes' = TakenScopes(scopes)
    /\ opened' = opened + 1
    /\ last' = Step("comptime_begin", "")
    /\ UNCHANGED <<castVars, worldVars, laterVars, root, index, bodies, diagnostics, ret, def_log>>

\* lower_comptime: the body is lowered; the context is restored
ComptimeEnd ==
    /\ stack # <<>> /\ Top.kind = "comptime" /\ ret # None
    /\ params' = Top.old_params
    /\ scopes' = Top.old_scopes
    /\ bodies' = [bodies EXCEPT
           !.comptimes = ArenaAlloc(@, [body |-> ret[1]]),
           !.expr_ranges = MapInsert(@, NextIdx(bodies.exprs), TextRange(Top.start, NextIdx(bodies.exprs))),
           !.exprs = ArenaAlloc(@, ExprComptime(NextIdx(bodies.comptimes)))]
    /\ stack' = Pop(stack)
    /\ ret' = Some(NextIdx(bodies.exprs))
    /\ last' = Step("comptime_end", "")
    /\ UNCHANGED <<castVars, worldVars, laterVars, root, index, diagnostics, def_log, opened>>

LowerStep ==
    \/ LowerGlobal
    \/ GlobalTy
    \/ GlobalEnd
    \/ \E name \in Names : VarRef(name)
    \/ BlockOpen
    \/ BlockStmt
    \/ BlockEnd
    \/ \E name \in Names, has_ty \in BOOLEAN : DefineBegin(name, has_ty)
    \/ DefineTy
    \/ DefineEnd
    \/ LambdaBegin(FALSE)
    \/ \E name \in Names : LambdaParam(name)
    \/ ParamEnd
    \/ LambdaReturnTy
    \/ LambdaBody
    \/ LambdaEnd
    \/ ComptimeBegin
    \/ ComptimeEnd

(***************************************************************************)
(* Integer literals: Ctx::lower_int_literal.  A u64 is kept as the         *)
(* sequence of its decimal digits, most significant first and without      *)
(* leading zeros, so that the 64-bit limit is the one of the code.         *)
(***************************************************************************)
DigitChars(digits) == [i \in 1 .. Len(digits) |-> ToString(digits[i])]
IsDigitChar(c) == \E d \in 0 .. 9 : ToString(d) = c
DigitValue(c) == CHOOSE d \in 0 .. 9 : ToString(d) = c

\* u64::MAX = 18446744073709551615 and u32::MAX = 4294967295
U64Max == <<1, 8, 4, 4, 6, 7, 4, 4, 0, 7, 3, 7, 0, 9, 5, 5, 1, 6, 1, 5>>
U32Max == <<4, 2, 9, 4, 9, 6, 7, 2, 9, 5>>

Reverse(seq) == [i \in 1 .. Len(seq) |-> seq[Len(seq) + 1 - i]]

RECURSIVE Norm(_)
\* the digits without leading zeros
Norm(digits) ==
    IF Len(digits) > 1 /\ Head(digits) = 0 THEN Norm(Tail(digits)) ELSE digits

RECURSIVE DigitsLeq(_, _)
\* a <= b for digit sequences of equal length
DigitsLeq(a, b) ==
    IF a = <<>> THEN TRUE
    ELSE IF Head(a) # Head(b) THEN Head(a) < Head(b)
    ELSE DigitsLeq(Tail(a), Tail(b))

\* a <= b for numbers
BigLeq(a, b) == Len(a) < Len(b) \/ (Len(a) = Len(b) /\ DigitsLeq(a, b))

RECURSIVE AddLE(_, _, _)
\* a + b + carry on digits least significant first
AddLE(a, b, carry) ==
    IF a = <<>> /\ b = <<>> THEN (IF carry = 0 THEN <<>> ELSE <<carry>>)
    ELSE LET x == IF a = <<>> THEN 0 ELSE Head(a)
             y == IF b = <<>> THEN 0 ELSE Head(b)
             sum == x + y + carry
         IN  <<sum % 10>> \o AddLE(IF a = <<>> THEN <<>> ELSE Tail(a),
                                  IF b = <<>> THEN <<>> ELSE Tail(b), sum \div 10)

RECURSIVE MulDigitLE(_, _, _)
\* a * d + carry, d a digit
MulDigitLE(a, d, carry) ==
    IF a = <<>> THEN (IF carry = 0 THEN <<>> ELSE <<carry>>)
    ELSE LET prod == Head(a) * d + carry
         IN  <<prod % 10>> \o MulDigitLE(Tail(a), d, prod \div 10)

RECURSIVE MulLE(_, _)
\* a * b: a times the lowest digit of b, plus ten times a times the rest
MulLE(a, b) ==
    IF b = <<>> THEN <<>>
    ELSE IF Head(b) = 0 THEN <<0>> \o MulLE(a, Tail(b))
    ELSE AddLE(MulDigitLE(a, Head(b), 0), <<0>> \o MulLE(a, Tail(b)), 0)

\* the exact product of two numbers
BigMul(a, b) ==
    LET prod == Reverse(MulLE(Reverse(a), Reverse(b)))
    IN  IF prod = <<>> THEN <<0>> ELSE Norm(prod)

RECURSIVE BigToInt(_)
\* the value of a small number
BigToInt(digits) ==
    IF digits = <<>> THEN 0
    ELSE BigToInt(SubSeq(digits, 1, Len(digits) - 1)) * 10 + digits[Len(digits)]

\* str::parse::<u64> and str::parse::<u32>: decimal digits, at least one,
\* and a value within the type
ParseUnsigned(chars, max) ==
    IF chars = <<>> \/ \E i \in 1 .. Len(chars) : ~IsDigitChar(chars[i])
    THEN None
    ELSE LET number == Norm([i \in 1 .. Len(chars) |-> DigitValue(chars[i])])
         IN  IF BigLeq(number, max) THEN Some(number) ELSE None

\* a checked_mul that wraps into the low digits instead of failing
WrappingMul(a, b) ==
    LET prod == BigMul(a, b)
    IN  IF BigLeq(prod, U64Max) THEN Some(prod)
        ELSE Some(Norm(SubSeq(prod, Len(prod) - Len(U64Max) + 2, Len(prod))))

\* u64::checked_mul
CheckedMul(a, b) ==
    LET prod == BigMul(a, b)
    IN  IF BigLeq(prod, U64Max) THEN Some(prod) ELSE None

RECURSIVE CheckedPow10(_)
\* 10_u64.checked_pow(e): None as soon as the power leaves 64 bits
CheckedPow10(e) ==
    IF e = 0 THEN Some(<<1>>)
    ELSE LET rest == CheckedPow10(e - 1)
         IN  IF rest = None THEN None ELSE CheckedMul(rest[1], <<1, 0>>)

\* str::replace('_', "")
RemoveUnderscores(text) == SelectSeq(text, LAMBDA c : c # "_")

\* str::split(['e', 'E']): the first part and, when there is one, the second
SplitAtE(text) ==
    LET marks == {i \in 1 .. Len(text) : text[i] \in {"e", "E"}}
    IN  IF marks = {} THEN [first |-> text, second |-> None]
        ELSE LET m == CHOOSE i \in marks : \A j \in marks : i <= j
                 rest == SubSeq(text, m + 1, Len(text))
                 more == {i \in 1 .. Len(rest) : rest[i] \in {"e", "E"}}
                 stop == IF more = {} THEN Len(rest)
                         ELSE (CHOOSE i \in more : \A j \in more : i <= j) - 1
             IN  [first |-> SubSeq(text, 1, m - 1),
                  second |-> Some(SubSeq(rest, 1, stop))]

\* Expr::IntLiteral and LoweringDiagnosticKind::OutOfRangeIntLiteral
ExprIntLiteral(value) == [tag |-> "IntLiteral", value |-> value]
OutOfRangeIntLiteral == [kind |-> "OutOfRangeIntLiteral"]

\* Ctx::lower_int_literal on the text of the literal
LowerIntLiteral(text) ==
    LET value == SplitAtE(RemoveUnderscores(text))
        base == ParseUnsigned(value.first, U64Max)
        out_of_range == [expr |-> ExprMissing, diags |-> <<OutOfRangeIntLiteral>>]
    IN  IF base = None THEN out_of_range
        ELSE IF value.second = None
            THEN [expr |-> ExprIntLiteral(base[1]), diags |-> <<>>]
        ELSE LET e == ParseUnsigned(value.second[1], U32Max)
                 pow == IF e = None THEN None ELSE CheckedPow10(BigToInt(e[1]))
                 result == IF pow = None THEN None ELSE CheckedMul(base[1], pow[1])
             IN  IF result = None THEN out_of_range
                 ELSE [expr |-> ExprIntLiteral(result[1]), diags |-> <<>>]

\* the integer literals of the files lowered: the digits of the base, with
\* or without separators, and the digits of the exponent when there is one
LiteralBases ==
    {DigitChars(<<0>>), DigitChars(<<1>>), DigitChars(<<0, 0, 7>>),
     DigitChars(<<1>>) \o <<"_">> \o DigitChars(<<0, 0, 0>>),
     DigitChars(<<1, 8, 4, 4, 6, 7, 4, 4, 0, 7, 3, 7, 0, 9, 5, 5, 1, 6, 1>>),
     DigitChars(<<1, 8, 4, 4, 6, 7, 4, 4, 0, 7, 3, 7, 0, 9, 5, 5, 1, 6, 2>>),
     DigitChars(U64Max),
     DigitChars(<<1, 8, 4, 4, 6, 7, 4, 4, 0, 7, 3, 7, 0, 9, 5, 5, 1, 6, 1, 6>>)}
LiteralExponents ==
    {DigitChars(<<0>>), DigitChars(<<1>>), DigitChars(<<0, 2>>), DigitChars(<<1, 6>>),
     DigitChars(<<1, 9>>), DigitChars(<<2, 0>>),
     DigitChars(<<4, 2, 9, 4, 9, 6, 7, 2, 9, 6>>)}
IntLiteralTexts ==
    LiteralBases
        \cup {b \o <<e>> \o x : b \in LiteralBases, e \in {"e", "E"}, x \in LiteralExponents}

\* lower_expr on an IntLiteral: lower_int_literal, then the allocation
IntLiteral(text) ==
    /\ CanStartValue
    /\ LET lowered == LowerIntLiteral(text)
       IN  /\ bodies' = [bodies EXCEPT
                            !.expr_ranges = MapInsert(@, NextIdx(bodies.exprs), TextRange(NextIdx(bodies.exprs), NextIdx(bodies.exprs))),
                            !.exprs = ArenaAlloc(@, lowered.expr)]
           /\ diagnostics' = diagnostics \o lowered.diags
    /\ ret' = Some(NextIdx(bodies.exprs))
    /\ last' = Step("int_literal", text)
    /\ UNCHANGED <<castVars, worldVars, laterVars, root, index, scopes, params, stack, def_log, opened>>

(***************************************************************************)
(* Character literals: Ctx::lower_char_literal.  A char is its Unicode     *)
(* scalar value; a literal is the sequence of its components.              *)
(***************************************************************************)
\* ast::StringComponent
Escape(escape_char) == [tag |-> "Escape", escape_char |-> escape_char]
Contents(chars) == [tag |-> "Contents", chars |-> chars]

\* the escape characters lower_char_literal knows and the char each pushes
EscapeChars == {"0", "a", "b", "n", "f", "r", "t", "v", "e", "'", "\"", "\\"}
EscapedChar(escape_char) ==
    CASE escape_char = "0" -> 0
      [] escape_char = "a" -> 7
      [] escape_char = "b" -> 8
      [] escape_char = "n" -> 10
      [] escape_char = "f" -> 12
      [] escape_char = "r" -> 13
      [] escape_char = "t" -> 9
      [] escape_char = "v" -> 11
      [] escape_char = "e" -> 27
      [] escape_char = "'" -> 39
      [] escape_char = "\"" -> 34
      [] escape_char = "\\" -> 92

\* Expr::CharLiteral and the diagnostics of a character literal
ExprCharLiteral(ch) == [tag |-> "CharLiteral", ch |-> ch]
InvalidEscape == [kind |-> "InvalidEscape"]
EmptyCharLiteral == [kind |-> "EmptyCharLiteral"]
NonU8CharLiteral == [kind |-> "NonU8CharLiteral"]
TooManyCharsInCharLiteral == [kind |-> "TooManyCharsInCharLiteral"]

\* an escape that counts only when it pushes a char
EscapeLenIfKnown(escape_char) == IF escape_char \in EscapeChars THEN 1 ELSE 0

\* total_len += 1 for an escape, whether or not it adds to the text
EscapeLen(escape_char) == 1

RECURSIVE CharComponents(_, _)
\* the loop over the components: total_len, text and the diagnostics pushed
CharComponents(components, acc) ==
    IF components = <<>> THEN acc
    ELSE LET component == Head(components)
             next ==
                IF component.tag = "Escape"
                THEN IF component.escape_char \in EscapeChars
                     THEN [total_len |-> acc.total_len + EscapeLen(component.escape_char),
                           text |-> Append(acc.text, EscapedChar(component.escape_char)),
                           diags |-> acc.diags]
                     ELSE [total_len |-> acc.total_len + EscapeLen(component.escape_char),
                           text |-> acc.text,
                           diags |-> Append(acc.diags, InvalidEscape)]
                ELSE [total_len |-> acc.total_len + Len(component.chars),
                      text |-> acc.text \o component.chars,
                      diags |-> acc.diags]
         IN  CharComponents(Tail(components), next)

\* char::try_into::<u8>
TryIntoU8(ch) == IF ch <= 255 THEN Some(ch) ELSE None

\* Ctx::lower_char_literal on the components of the literal
LowerCharLiteral(components) ==
    LET read == CharComponents(components, [total_len |-> 0, text |-> <<>>, diags |-> <<>>])
    IN  IF read.total_len < 1
        THEN [expr |-> ExprCharLiteral(0), diags |-> Append(read.diags, EmptyCharLiteral)]
        ELSE IF read.total_len = 1
        THEN LET first == IF read.text = <<>> THEN 0 ELSE Head(read.text)
             IN  IF TryIntoU8(first) = None
                 THEN [expr |-> ExprCharLiteral(0),
                       diags |-> Append(read.diags, NonU8CharLiteral)]
                 ELSE [expr |-> ExprCharLiteral(TryIntoU8(first)[1]), diags |-> read.diags]
        ELSE [expr |-> ExprCharLiteral(0),
              diags |-> Append(read.diags, TooManyCharsInCharLiteral)]

\* the character literals of the files lowered: up to two components, among
\* them an unknown escape, the chars 255 and 256 and the crab U+1F980
CharComponentChoices ==
    {Escape("n"), Escape("0"), Escape("\\"), Escape("q"),
     Contents(<<97>>), Contents(<<255>>), Contents(<<256>>), Contents(<<129408>>),
     Contents(<<97, 98>>)}
CharLiteralTexts ==
    {<<>>} \cup {<<c>> : c \in CharComponentChoices}
           \cup {<<c, d>> : c \in CharComponentChoices, d \in CharComponentChoices}

\* lower_expr on a CharLiteral: lower_char_literal, then the allocation
CharLiteral(components) ==
    /\ CanStartValue
    /\ LET lowered == LowerCharLiteral(components)
       IN  /\ bodies' = [bodies EXCEPT
                            !.expr_ranges = MapInsert(@, NextIdx(bodies.exprs), TextRange(NextIdx(bodies.exprs), NextIdx(bodies.exprs))),
                            !.exprs = ArenaAlloc(@, lowered.expr)]
           /\ diagnostics' = diagnostics \o lowered.diags
    /\ ret' = Some(NextIdx(bodies.exprs))
    /\ last' = Step("char_literal", components)
    /\ UNCHANGED <<castVars, worldVars, laterVars, root, index, scopes, params, stack, def_log, opened>>

(***************************************************************************)
(* Array literals: Ctx::lower_array_expr                                   *)
(***************************************************************************)
RECURSIVE NatDigits(_)
\* the decimal digits of a small number
NatDigits(n) == IF n < 10 THEN <<n>> ELSE NatDigits(n \div 10) \o <<n % 10>>

\* the exact sum of two numbers
BigAdd(a, b) == Norm(Reverse(AddLE(Reverse(a), Reverse(b), 0)))

RECURSIVE Low32(_, _, _)
\* the low 32 bits of a number, as two 16-bit halves, digit by digit
Low32(digits, hi, lo) ==
    IF digits = <<>> THEN [hi |-> hi, lo |-> lo]
    ELSE LET low == lo * 10 + Head(digits)
         IN  Low32(Tail(digits), (hi * 10 + low \div 65536) % 65536, low % 65536)

\* `value as u32` on a u64 or usize: the low 32 bits
AsU32(value) ==
    LET low == Low32(value, 0, 0)
    IN  BigAdd(BigMul(NatDigits(low.hi), NatDigits(65536)), NatDigits(low.lo))

\* the size of an array literal in the source: absent, an integer literal,
\* or another expression
NoSize == [tag |-> "None"]
LiteralSize(text) == [tag |-> "IntLiteral", text |-> text]
OtherSize == [tag |-> "Other"]
\* the literal sizes: 0, 1, 2, 2^32 + 1 and the out-of-range 2^64
ArraySizeTexts ==
    {DigitChars(<<0>>), DigitChars(<<1>>), DigitChars(<<2>>),
     DigitChars(<<4, 2, 9, 4, 9, 6, 7, 2, 9, 7>>),
     DigitChars(<<1, 8, 4, 4, 6, 7, 4, 4, 0, 7, 3, 7, 0, 9, 5, 5, 1, 6, 1, 6>>)}
ArraySizeInputs == {NoSize, OtherSize} \cup {LiteralSize(text) : text \in ArraySizeTexts}

\* Expr::Array and the diagnostics of an array literal
ExprArray(size, items, ty) == [tag |-> "Array", size |-> size, items |-> items, ty |-> ty]
ArraySizeNotConst == [kind |-> "ArraySizeNotConst"]
ArraySizeMismatch(found, expected) ==
    [kind |-> "ArraySizeMismatch", found |-> found, expected |-> expected]

\* lower_array_expr: the size of the node and the diagnostics pushed, from
\* the size in the source and the number of items lowered (None without body)
LowerArraySize(size, items_len) ==
    IF size.tag = "None" THEN [size |-> None, diags |-> <<>>]
    ELSE IF size.tag # "IntLiteral" THEN [size |-> None, diags |-> <<ArraySizeNotConst>>]
    ELSE LET lowered == LowerIntLiteral(size.text)
         IN  IF lowered.expr.tag # "IntLiteral"
             THEN [size |-> None, diags |-> lowered.diags]
             ELSE IF items_len # None /\ lowered.expr.value # NatDigits(items_len[1])
             THEN [size |-> Some(lowered.expr.value),
                   diags |-> lowered.diags \o
                        <<ArraySizeMismatch(AsU32(NatDigits(items_len[1])),
                                            AsU32(lowered.expr.value))>>]
             ELSE [size |-> Some(lowered.expr.value), diags |-> lowered.diags]

\* lower_array_expr: entry, up to the lowering of the element type
ArrayBegin(size, has_body) ==
    /\ CanStartValue
    /\ stack' = Append(stack, [start |-> NextIdx(bodies.exprs), kind |-> "array_ty", size |-> size, has_body |-> has_body,
                               ty |-> None, items |-> <<>>])
    /\ last' = Step("array_begin", "")
    /\ UNCHANGED <<castVars, worldVars, laterVars, root, index, bodies, diagnostics, scopes, params, ret, def_log, opened>>

\* lower_array_expr: the element type is lowered
ArrayTy ==
    /\ stack # <<>> /\ Top.kind = "array_ty" /\ ret # None
    /\ stack' = ReplaceTop(stack, [Top EXCEPT
            !.kind = IF Top.has_body THEN "array_items" ELSE "array_size",
            !.ty = ret])
    /\ ret' = None
    /\ last' = Step("array_ty", "")
    /\ UNCHANGED <<castVars, worldVars, laterVars, root, index, bodies, diagnostics, scopes, params, def_log, opened>>

\* lower_array_expr: an item of the body is lowered
ArrayItem ==
    /\ stack # <<>> /\ Top.kind = "array_items" /\ ret # None
    /\ stack' = ReplaceTop(stack, [Top EXCEPT !.items = Append(@, ret[1])])
    /\ ret' = None
    /\ last' = Step("array_item", "")
    /\ UNCHANGED <<castVars, worldVars, laterVars, root, index, bodies, diagnostics, scopes, params, def_log, opened>>

\* lower_array_expr: the size is settled against the number of items and the
\* node is allocated
ArrayEnd ==
    /\ stack # <<>>
    /\ \/ Top.kind = "array_items" /\ ret = None
       \/ Top.kind = "array_size"
    /\ LET items == IF Top.has_body THEN Some(Top.items) ELSE None
           items_len == IF Top.has_body THEN Some(Len(Top.items)) ELSE None
           sized == LowerArraySize(Top.size, items_len)
       IN  /\ diagnostics' = diagnostics \o sized.diags
           /\ bodies' = [bodies EXCEPT
                  !.expr_ranges = MapInsert(@, NextIdx(bodies.exprs), TextRange(Top.start, NextIdx(bodies.exprs))),
                  !.exprs = ArenaAlloc(@, ExprArray(sized.size, items, Top.ty[1]))]
           /\ last' = Step("array_end", [size |-> Top.size, items_len |-> items_len])
    /\ stack' = Pop(stack)
    /\ ret' = Some(NextIdx(bodies.exprs))
    /\ UNCHANGED <<castVars, worldVars, laterVars, root, index, scopes, params, def_log, opened>>

(***************************************************************************)
(* Nominal types: Ctx::lower_distinct and Ctx::lower_struct_declaration    *)
(* ask the UIDGenerator for a unique id.  The generator is created once    *)
(* per compilation and handed to the lowering of every file.               *)
(***************************************************************************)
\* UIDGenerator::generate_unique_id: the id handed out and the generator
\* afterwards; the files lowered here do not exhaust the 32-bit counter
GenerateUniqueId(gen) == [uid |-> gen, uid_gen |-> gen + 1]

\* Expr
ExprDistinct(uid, ty) == [tag |-> "Distinct", uid |-> uid, ty |-> ty]
ExprStructDecl(uid, fields) == [tag |-> "StructDecl", uid |-> uid, fields |-> fields]

\* lower_expr on a Distinct: lower_distinct starts on the inner type
DistinctBegin ==
    /\ CanStartValue
    /\ stack' = Append(stack, [start |-> NextIdx(bodies.exprs), kind |-> "distinct"])
    /\ last' = Step("distinct", "")
    /\ UNCHANGED <<castVars, worldVars, laterVars, root, index, bodies, diagnostics, scopes, params, ret, def_log, opened>>

\* lower_distinct: the inner type is lowered, the id is generated and the
\* Expr::Distinct is allocated
DistinctEnd ==
    /\ stack # <<>> /\ Top.kind = "distinct" /\ ret # None
    /\ LET generated == GenerateUniqueId(uid_gen)
       IN  /\ uid_gen' = generated.uid_gen
           /\ bodies' = [bodies EXCEPT
                  !.expr_ranges = MapInsert(@, NextIdx(bodies.exprs), TextRange(Top.start, NextIdx(bodies.exprs))),
                  !.exprs = ArenaAlloc(@, ExprDistinct(generated.uid, ret[1]))]
    /\ stack' = Pop(stack)
    /\ ret' = Some(NextIdx(bodies.exprs))
    /\ last' = Step("distinct_end", "")
    /\ UNCHANGED <<castVars, laterVars, modules, world_bodies, fake_file_system, disk, root, index, diagnostics, scopes, params, def_log, opened>>

\* lower_expr on a StructDeclaration: lower_struct_declaration starts on the
\* fields
StructBegin ==
    /\ CanStartValue
    /\ stack' = Append(stack, [start |-> NextIdx(bodies.exprs), kind |-> "struct_decl", fields |-> <<>>])
    /\ last' = Step("struct_decl", "")
    /\ UNCHANGED <<castVars, worldVars, laterVars, root, index, bodies, diagnostics, scopes, params, ret, def_log, opened>>

\* lower_struct_declaration: the next field, up to the lowering of its type
StructField(name) ==
    /\ stack # <<>> /\ Top.kind = "struct_decl" /\ ret = None
    /\ Len(bodies.exprs) + PendingAllocs < MaxExprs
    /\ stack' = Append(stack, [start |-> NextIdx(bodies.exprs), kind |-> "struct_field", name |-> name])
    /\ last' = Step("struct_field", name)
    /\ UNCHANGED <<castVars, worldVars, laterVars, root, index, bodies, diagnostics, scopes, params, ret, def_log, opened>>

\* lower_struct_declaration: the type of the field is lowered
StructFieldEnd ==
    /\ stack # <<>> /\ Top.kind = "struct_field" /\ ret # None
    /\ LET decl == stack[Len(stack) - 1]
       IN  stack' = ReplaceTop(Pop(stack),
                        [decl EXCEPT !.fields = Append(@, <<Top.name, ret[1]>>)])
    /\ ret' = None
    /\ last' = Step("struct_field_end", "")
    /\ UNCHANGED <<castVars, worldVars, laterVars, root, index, bodies, diagnostics, scopes, params, def_log, opened>>

\* lower_struct_declaration: the fields are collected, the id is generated
\* and the Expr::StructDecl is allocated
StructEnd ==
    /\ stack # <<>> /\ Top.kind = "struct_decl" /\ ret = None
    /\ LET generated == GenerateUniqueId(uid_gen)
       IN  /\ uid_gen' = generated.uid_gen
           /\ bodies' = [bodies EXCEPT
                  !.expr_ranges = MapInsert(@, NextIdx(bodies.exprs), TextRange(Top.start, NextIdx(bodies.exprs))),
                  !.exprs = ArenaAlloc(@, ExprStructDecl(generated.uid, Top.fields))]
    /\ stack' = Pop(stack)
    /\ ret' = Some(NextIdx(bodies.exprs))
    /\ last' = Step("struct_decl_end", "")
    /\ UNCHANGED <<castVars, laterVars, modules, world_bodies, fake_file_system, disk, root, index, diagnostics, scopes, params, def_log, opened>>

\* the generator lower() is given for the next file starts from a new one
UidGenPerFile(gen) == NewUidGen

\* the generator lower() is given for the next file: the one of the
\* compilation, as the lowering of the file before left it
UidGenOfNextFile(gen) == gen

\* the compilation: lower() has returned the Bodies of a file, which are
\* added to the WorldBodies, and is called on the next file
NextFile ==
    /\ stack = <<>> /\ root = <<>> /\ modules # <<>>
    /\ world_bodies' = Append(world_bodies, bodies)
    /\ uid_gen' = UidGenOfNextFile(uid_gen)
    /\ modules' = Tail(modules)
    /\ root' = Head(modules)
    /\ index' = {def.name : def \in Range(Head(modules))}
    /\ bodies' = NewBodies
    /\ diagnostics' = <<>>
    /\ scopes' = <<EmptyMap>>
    /\ params' = EmptyMap
    /\ ret' = None
    /\ def_log' = <<>>
    /\ opened' = 0
    /\ last' = Step("new", "")
    /\ UNCHANGED <<castVars, laterVars, stack, fake_file_system, disk>>

(***************************************************************************)
(* Imports: Ctx::lower_import.  The text of a string is the sequence of    *)
(* its characters, a path the sequence of its components.                  *)
(***************************************************************************)
\* the characters '/', '\' and '.'
Slash == 47
Backslash == 92
Dot == 46
\* std::path::MAIN_SEPARATOR on the systems that separate with '/'
MainSeparator == Slash
\* ".capy"
DotCapy == <<Dot, 99, 97, 112, 121>>

RECURSIVE StringComponents(_, _)
\* lower_string_literal: the loop over the components; acc is the text and
\* the diagnostics so far.  An escape that is not known pushes nothing.
StringComponents(components, acc) ==
    IF components = <<>> THEN acc
    ELSE LET component == Head(components)
         IN  StringComponents(Tail(components),
                 IF component.tag = "Escape"
                 THEN IF component.escape_char \in EscapeChars
                      THEN [acc EXCEPT !.text = Append(@, EscapedChar(component.escape_char))]
                      ELSE [acc EXCEPT !.diagnostics = Append(@, InvalidEscape)]
                 ELSE [acc EXCEPT !.text = @ \o component.chars])

\* lower_string_literal: the text of Expr::StringLiteral and the diagnostics
LowerStringLiteral(components) ==
    StringComponents(components, [text |-> <<>>, diagnostics |-> <<>>])

\* str::replace(['/', '\\'], MAIN_SEPARATOR_STR)
ReplaceSeparators(text) ==
    [i \in 1 .. Len(text) |->
        IF text[i] \in {Slash, Backslash} THEN MainSeparator ELSE text[i]]

\* str::ends_with
EndsWith(text, suffix) ==
    /\ Len(text) >= Len(suffix)
    /\ SubSeq(text, Len(text) - Len(suffix) + 1, Len(text)) = suffix

RECURSIVE SplitPath(_, _, _)
\* the components of a path text: the runs of characters between separators
SplitPath(text, current, acc) ==
    IF text = <<>>
    THEN IF current = <<>> THEN acc ELSE Append(acc, current)
    ELSE IF Head(text) = MainSeparator
         THEN SplitPath(Tail(text), <<>>,
                        IF current = <<>> THEN acc ELSE Append(acc, current))
         ELSE SplitPath(Tail(text), Append(current, Head(text)), acc)

\* Path::new: whether the path starts at the root, and its components
PathNew(text) ==
    [absolute |-> text # <<>> /\ Head(text) = MainSeparator,
     components |-> SplitPath(text, <<>>, <<>>)]

\* Path::join: an absolute path replaces the base
PathJoin(base, path) ==
    IF path.absolute THEN path
    ELSE [base EXCEPT !.components = @ \o path.components]

RECURSIVE CleanComponents(_, _, _)
\* PathClean::clean: "." is dropped, ".." takes the component before it and
\* stays at the root
CleanComponents(components, absolute, acc) ==
    IF components = <<>> THEN acc
    ELSE LET c == Head(components)
         IN  CleanComponents(Tail(components), absolute,
                 IF c = <<Dot>> THEN acc
                 ELSE IF c = <<Dot, Dot>>
                      THEN IF acc # <<>> /\ acc[Len(acc)] # <<Dot, Dot>>
                           THEN SubSeq(acc, 1, Len(acc) - 1)
                           ELSE IF absolute THEN acc ELSE Append(acc, c)
                      ELSE Append(acc, c))

PathClean(path) ==
    [path EXCEPT !.components = CleanComponents(path.components, path.absolute, <<>>)]

RECURSIVE JoinComponents(_)
JoinComponents(components) ==
    IF components = <<>> THEN <<>>
    ELSE IF Len(components) = 1 THEN Head(components)
         ELSE Head(components) \o <<MainSeparator>> \o JoinComponents(Tail(components))

\* Path::to_string_lossy
PathToString(path) ==
    (IF path.absolute THEN <<MainSeparator>> ELSE <<>>) \o JoinComponents(path.components)

\* env::current_dir(): "/p"
CurrentDir == PathNew(<<Slash, 112>>)
\* the path lower() is given for the file being lowered: "main.capy"
LoweredFileName == PathNew(<<109, 97, 105, 110>> \o DotCapy)

\* the path an import is looked up at: the text relative to the directory of
\* the importing file
ResolveImport(file) ==
    PathClean(PathJoin(PathJoin(PathJoin(CurrentDir, LoweredFileName),
                                PathNew(<<Dot, Dot>>)),
                       PathNew(file)))

\* every path is taken to exist
ExistsAlways(path, files_on_disk) == TRUE

\* Path::exists and Path::is_file
ExistsAsFile(path, files_on_disk) == PathToString(path) \in files_on_disk

\* FileName(interner.intern(text)): interned keys are equal exactly when the
\* texts are, so that the text stands for its key
FileName(text) == [file_name |-> text]

\* Expr::Import, Expr::Missing's diagnostics of an import
ExprImport(file_name) == [tag |-> "Import", file_name |-> file_name]
ImportMustEndInDotCapy == [kind |-> "ImportMustEndInDotCapy"]
ImportDoesNotExist(file) == [kind |-> "ImportDoesNotExist", file |-> file]

\* an import written without its string
NoFile == [tag |-> "NoFile"]

\* lower_import: the expression, the diagnostics it pushes and the file
\* names it inserts into Bodies.imports
LowerImport(import, fake, files_on_disk) ==
    LET failed(diags) == [expr |-> ExprMissing, diagnostics |-> diags, imports |-> {}]
        imported(file_name) ==
            [expr |-> ExprImport(file_name), diagnostics |-> <<>>, imports |-> {file_name}]
    IN  IF import = NoFile THEN failed(<<>>)
        ELSE LET literal == LowerStringLiteral(import.components)
                 file == ReplaceSeparators(literal.text)
                 path == ResolveImport(file)
             IN  IF literal.diagnostics # <<>> THEN failed(literal.diagnostics)
                 ELSE IF ~EndsWith(file, DotCapy) THEN failed(<<ImportMustEndInDotCapy>>)
                 ELSE IF ~fake
                      THEN IF ~ExistsAsFile(path, files_on_disk)
                           THEN failed(<<ImportDoesNotExist(PathToString(path))>>)
                           ELSE imported(FileName(PathToString(path)))
                      ELSE imported(FileName(file))

\* an import of the string with these components
ImportOf(components) == [tag |-> "ImportExpr", components |-> components]

\* the strings the imports are written with: "o.capy", "./o.capy",
\* "d\\..\\o.capy", "d/o.capy", "o.cap", "\qo.capy", "o.capy\n" and
\* ".capy/"
ImportStrings ==
    LET o == <<111>>
        d == <<100>>
    IN  {<<Contents(o \o DotCapy)>>,
         <<Contents(<<Dot, Slash>> \o o \o DotCapy)>>,
         <<Contents(d), Escape("\\"), Contents(<<Dot, Dot>>), Escape("\\"),
           Contents(o \o DotCapy)>>,
         <<Contents(d \o <<Slash>> \o o \o DotCapy)>>,
         <<Contents(o \o <<Dot, 99, 97, 112>>)>>,
         <<Escape("q"), Contents(o \o DotCapy)>>,
         <<Contents(o \o DotCapy), Escape("n")>>,
         <<Contents(DotCapy \o <<Slash>>)>>}

ImportInputs == {NoFile} \cup {ImportOf(components) : components \in ImportStrings}

\* the files that may exist on disk: "/p/o.capy"
Disks == {{}, {<<Slash, 112, Slash, 111>> \o DotCapy}}

\* lower_expr on an Import: lower_import, then the allocation
Import(import) ==
    /\ CanStartValue
    /\ LET lowered == LowerImport(import, fake_file_system, disk)
       IN  /\ bodies' = [bodies EXCEPT
                  !.imports = @ \cup lowered.imports,
                  !.expr_ranges = MapInsert(@, NextIdx(bodies.exprs), TextRange(NextIdx(bodies.exprs), NextIdx(bodies.exprs))),
                  !.exprs = ArenaAlloc(@, lowered.expr)]
           /\ diagnostics' = diagnostics \o lowered.diagnostics
    /\ ret' = Some(NextIdx(bodies.exprs))
    /\ last' = Step("import", import)
    /\ UNCHANGED <<castVars, worldVars, laterVars, root, index, scopes, params, stack, def_log, opened>>

(***************************************************************************)
(* CodeGen: the driver of crates/codegen/src/driver.rs.  finish() compiles    *)
(* the functions on the worklist, then synthesizes `main`.  The steps of   *)
(* compile_queued_functions and compile_function are separate actions, as  *)
(* the calls of a body reach get_func_id one at a time.                    *)
(***************************************************************************)
\* number of calls in the body of one function
MaxCalls == 2

\* the functions of the program; an Fqn is written as the name
Fqns == {"entry", "f", "g"}

\* compile_queued_functions calls itself once for every function it pops, and
\* it pops a function once: its activations are at most this many
MaxDepth == Cardinality(Fqns) + 1

\* the callees of a body, in the order in which the body is compiled
CalleeLists == UNION {[1 .. n -> Fqns] : n \in 0 .. MaxCalls}

\* what the driver reads of a function: its signature and its body's calls;
\* an extern function has no body
Function(is_extern, calls, return_ty) ==
    [is_extern |-> is_extern,
     calls |-> IF is_extern THEN <<>> ELSE calls,
     return_ty |-> return_ty]

\* to_mangled_name: the symbol of a function that is not extern
MangledName(fqn) == <<"module", fqn>>

\* the symbol get_func_id declares, and its linkage
SymbolOf(fqn) ==
    IF program.fns[fqn].is_extern
       THEN [name |-> <<fqn>>, linkage |-> "Import"]
       ELSE [name |-> MangledName(fqn), linkage |-> "Export"]

\* Module::declare_function: the FuncId of a name is the same on every call
DeclareFunction(m, name, linkage) ==
    [m EXCEPT !.declarations = MapInsert(@, name, linkage)]

\* Module::define_function; how often a function was defined is kept
DefineFunction(m, func_id) ==
    [m EXCEPT !.definitions =
        MapInsert(@, func_id, IF func_id \in DOMAIN @ THEN @[func_id] + 1 ELSE 1)]

NewModule == [declarations |-> EmptyMap, definitions |-> EmptyMap, main |-> None]

IsDeclaredNever(fns, fqn) == FALSE

\* get_func_id: `if let Some(func_id) = functions.get(&fqn)`
IsDeclared(fns, fqn) == fqn \in DOMAIN fns

\* get_func_id: the worklist, the map and the module after the call
GetFuncId(ftc, fns, m, fqn) ==
    IF IsDeclared(fns, fqn)
       THEN [functions_to_compile |-> ftc, functions |-> fns, module |-> m,
             func_id |-> fns[fqn]]
       ELSE LET symbol == SymbolOf(fqn)
            IN [functions_to_compile |-> Append(ftc, fqn),
                functions |-> MapInsert(fns, fqn, symbol.name),
                module |-> DeclareFunction(m, symbol.name, symbol.linkage),
                func_id |-> symbol.name]

\* history: fqn was put on the worklist if the worklist grew
CountPush(fqn, after) ==
    [pushes EXCEPT ![fqn] =
        IF Len(after) > Len(functions_to_compile) THEN @ + 1 ELSE @]

\* CodeGen::new
InitCodeGen(p) ==
    /\ program = p
    /\ functions_to_compile = <<p.entry_point>>
    /\ functions = EmptyMap
    /\ module = NewModule
    /\ driver = [pc |-> "new", depth |-> 0, current |-> None, remaining |-> <<>>]
    /\ pushes = [fqn \in Fqns |-> IF fqn = p.entry_point THEN 1 ELSE 0]

\* no code is generated
NoCodeGen ==
    /\ program = [entry_point |-> None, pointer_bits |-> 0, fns |-> EmptyMap]
    /\ functions_to_compile = <<>>
    /\ functions = EmptyMap
    /\ module = NewModule
    /\ driver = [pc |-> "none", depth |-> 0, current |-> None, remaining |-> <<>>]
    /\ pushes = EmptyMap

\* finish: the call of compile_queued_functions
Finish ==
    /\ driver.pc = "new"
    /\ driver' = [driver EXCEPT !.pc = "queue", !.depth = 1]
    /\ UNCHANGED <<program, functions_to_compile, functions, module, pushes>>
    /\ UNCHANGED <<castVars, lowerVars, worldVars, comptimeVars, parserVars>>

\* compile_queued_functions pops the front and compile_function begins: an
\* extern function returns at once, and compile_queued_functions calls
\* itself; any other function is declared and put into `functions` before
\* its body is compiled
CompileFunction ==
    /\ driver.pc = "queue"
    /\ functions_to_compile # <<>>
    /\ driver.depth < MaxDepth
    /\ LET fqn == Head(functions_to_compile)
           func_id == MangledName(fqn)
       IN /\ functions_to_compile' = Tail(functions_to_compile)
          /\ IF program.fns[fqn].is_extern
                THEN /\ driver' = [driver EXCEPT !.depth = @ + 1]
                     /\ UNCHANGED <<functions, module>>
                ELSE /\ module' = DeclareFunction(module, func_id, "Export")
                     /\ functions' = MapInsert(functions, fqn, func_id)
                     /\ driver' = [driver EXCEPT !.pc = "body",
                                           !.current = Some(fqn),
                                           !.remaining = program.fns[fqn].calls]
    /\ UNCHANGED <<program, pushes>>
    /\ UNCHANGED <<castVars, lowerVars, worldVars, comptimeVars, parserVars>>

\* FunctionCompiler::finish reaches a call in the body: get_func_id
CompileCall ==
    /\ driver.pc = "body"
    /\ driver.remaining # <<>>
    /\ LET fqn == Head(driver.remaining)
           r == GetFuncId(functions_to_compile, functions, module, fqn)
       IN /\ functions_to_compile' = r.functions_to_compile
          /\ functions' = r.functions
          /\ module' = r.module
          /\ pushes' = CountPush(fqn, r.functions_to_compile)
    /\ driver' = [driver EXCEPT !.remaining = Tail(@)]
    /\ UNCHANGED program
    /\ UNCHANGED <<castVars, lowerVars, worldVars, comptimeVars, parserVars>>

\* the end of compile_function: define_function; then
\* compile_queued_functions calls itself
CompileFunctionEnd ==
    /\ driver.pc = "body"
    /\ driver.remaining = <<>>
    /\ module' = DefineFunction(module, functions[driver.current[1]])
    /\ driver' = [driver EXCEPT !.pc = "queue", !.current = None, !.depth = @ + 1]
    /\ UNCHANGED <<program, functions_to_compile, functions, pushes>>
    /\ UNCHANGED <<castVars, lowerVars, worldVars, comptimeVars, parserVars>>

\* pop_front gives None: the activation of compile_queued_functions returns,
\* the last one to finish()
QueueEmpty ==
    /\ driver.pc = "queue"
    /\ functions_to_compile = <<>>
    /\ driver' = [driver EXCEPT !.depth = @ - 1,
                          !.pc = IF driver.depth = 1 THEN "main" ELSE "queue"]
    /\ UNCHANGED <<program, functions_to_compile, functions, module, pushes>>
    /\ UNCHANGED <<castVars, lowerVars, worldVars, comptimeVars, parserVars>>
(***************************************************************************)
(* The entry trampoline, generate_main_function of driver.rs.  A value of an  *)
(* integer type is the sequence of its bits, lowest bit first.             *)
(***************************************************************************)
Void == [tag |-> "Void"]

\* bit widths of the integer types, and of the pointer type of a target
IntWidths == {8, 16, 32, 64, 128}
PointerWidths == {16, 32, 64}

\* return_ty.to_comp_type(..).into_int_type(): the integer types give their
\* width and signedness, any other type gives None
IntoIntType(ty) ==
    IF IsInt(ty) THEN Some([bit_width |-> ty.w, signed |-> IsIInt(ty)]) ELSE None

Sextend(bits, value) ==
    value \o [i \in 1 .. bits - Len(value) |-> value[Len(value)]]

\* the backend instruction uextend: the higher bits are zero
Uextend(bits, value) == value \o [i \in 1 .. bits - Len(value) |-> 0]

\* the backend instruction ireduce: the lower bits are kept
Ireduce(bits, value) == SubSeq(value, 1, bits)

\* the backend instruction iconst
Iconst(bits, n) == [i \in 1 .. bits |-> IF i = 1 THEN n % 2 ELSE 0]

\* generate_main_function: the value `main` returns when the entry point
\* has returned `result`
ExitCode(return_ty, pointer_bits, result) ==
    LET return_int_ty == IntoIntType(return_ty)
    IN IF return_int_ty # None
          THEN IF return_int_ty[1].bit_width < pointer_bits
                  THEN Uextend(pointer_bits, result)
               ELSE IF return_int_ty[1].bit_width = pointer_bits
                  THEN result
               ELSE Ireduce(pointer_bits, result)
          ELSE Iconst(pointer_bits, 0)

\* values the entry point may return: no bit, every bit, the sign bit or the
\* lowest bit set; a type that is not an integer type has one value here
ResultsOf(ty) ==
    IF IsInt(ty)
       THEN {[i \in 1 .. ty.w |-> 0], [i \in 1 .. ty.w |-> 1],
             [i \in 1 .. ty.w |-> IF i = ty.w THEN 1 ELSE 0],
             [i \in 1 .. ty.w |-> IF i = 1 THEN 1 ELSE 0]}
       ELSE {<<>>}

\* generate_main_function: get_func_id(entry_point), then `main` is declared
\* and defined; `result` is what the call of the entry point returns
GenerateMain ==
    /\ driver.pc = "main"
    /\ LET fqn == program.entry_point
           r == GetFuncId(functions_to_compile, functions, module, fqn)
           return_ty == program.fns[fqn].return_ty
       IN /\ functions_to_compile' = r.functions_to_compile
          /\ functions' = r.functions
          /\ pushes' = CountPush(fqn, r.functions_to_compile)
          /\ \E result \in ResultsOf(return_ty) :
                module' =
                    [DefineFunction(DeclareFunction(r.module, <<"main">>, "Export"),
                                    <<"main">>)
                        EXCEPT !.main =
                            Some([calls |-> r.func_id,
                                  result |-> result,
                                  exit_code |-> ExitCode(return_ty,
                                                         program.pointer_bits,
                                                         result)])]
    /\ driver' = [driver EXCEPT !.pc = "done"]
    /\ UNCHANGED program
    /\ UNCHANGED <<castVars, lowerVars, worldVars, comptimeVars, parserVars>>
(***************************************************************************)
(* The comptime cache, as crates/codegen/src/lib.rs (tests::check_impl)    *)
(* drives it: inference demands blocks through its callback, then every    *)
(* block of the program is handed to eval_comptime_blocks, then the        *)
(* program is compiled with the cache passed by shared reference.          *)
(***************************************************************************)
\* number of demands of inference, and of reads of the code generation
MaxDemands == 4

\* the comptime blocks of the program (FQComptime), as find_comptimes()
\* lists them
Comptimes == <<"foo", "bar", "baz", "qux">>

IsCachedNever(results, comptime) == FALSE

\* the cache is read before a block is compiled again
IsCached(results, comptime) == comptime \in DOMAIN results

\* running a block: the value may differ from run to run (a block may print
\* or read input), so a value names the run that produced it
RunComptime(runs, comptime) == [block |-> comptime, run |-> runs[comptime] + 1]

RECURSIVE EvalComptimeBlocks(_, _, _)
\* eval_comptime_blocks(comptimes, &mut comptime_results): the blocks, in
\* order; a block that is in the cache is not run; a block that is run is
\* inserted
EvalComptimeBlocks(results, runs, comptimes) ==
    IF comptimes = <<>>
       THEN [comptime_results |-> results, comptime_runs |-> runs]
       ELSE LET comptime == Head(comptimes)
            IN IF IsCached(results, comptime)
                  THEN EvalComptimeBlocks(results, runs, Tail(comptimes))
                  ELSE EvalComptimeBlocks(
                           MapInsert(results, comptime, RunComptime(runs, comptime)),
                           [runs EXCEPT ![comptime] = @ + 1],
                           Tail(comptimes))

Stage(pass, demands, demanded, cached, returned) ==
    [pass |-> pass, demands |-> demands, demanded |-> demanded,
     cached |-> cached, returned |-> returned]

\* check_impl: `let mut comptime_results = FxHashMap::default()`
InitComptime ==
    /\ comptime_results = EmptyMap
    /\ comptime_runs = [comptime \in Range(Comptimes) |-> 0]
    /\ comptime_stage = Stage("inference", 0, None, FALSE, None)

\* no program is compiled
NoComptime ==
    /\ comptime_results = EmptyMap
    /\ comptime_runs = EmptyMap
    /\ comptime_stage = Stage("none", 0, None, FALSE, None)

\* the callback given to InferenceCtx::new: eval_comptime_blocks on the one
\* block, then `comptime_results[&comptime].clone()`
InferenceDemands(comptime) ==
    /\ comptime_stage.pass = "inference"
    /\ comptime_stage.demands < MaxDemands
    /\ LET r == EvalComptimeBlocks(comptime_results, comptime_runs, <<comptime>>)
       IN /\ comptime_results' = r.comptime_results
          /\ comptime_runs' = r.comptime_runs
          /\ comptime_stage' =
                Stage("inference", comptime_stage.demands + 1, Some(comptime),
                      IsCached(comptime_results, comptime),
                      Some(r.comptime_results[comptime]))
    /\ UNCHANGED <<castVars, lowerVars, worldVars, genVars, parserVars>>

\* after InferenceCtx::finish: "evaluate any comptimes that haven't been ran
\* yet", eval_comptime_blocks on world_bodies.find_comptimes()
EvalRemaining ==
    /\ comptime_stage.pass = "inference"
    /\ LET r == EvalComptimeBlocks(comptime_results, comptime_runs, Comptimes)
       IN /\ comptime_results' = r.comptime_results
          /\ comptime_runs' = r.comptime_runs
    /\ comptime_stage' = Stage("codegen", 0, None, FALSE, None)
    /\ UNCHANGED <<castVars, lowerVars, worldVars, genVars, parserVars>>

\* compile_obj(.., &comptime_results, ..): the code generation meets a
\* comptime block and emits the cached value
CodegenReads(comptime) ==
    /\ comptime_stage.pass = "codegen"
    /\ comptime_stage.demands < MaxDemands
    /\ comptime_stage' =
          Stage("codegen", comptime_stage.demands + 1, Some(comptime),
                IsCached(comptime_results, comptime),
                Some(comptime_results[comptime]))
    /\ UNCHANGED <<comptime_results, comptime_runs>>
    /\ UNCHANGED <<castVars, lowerVars, worldVars, genVars, parserVars>>

\* compile_obj returns
CompileObjEnd ==
    /\ comptime_stage.pass = "codegen"
    /\ comptime_stage' = Stage("done", 0, None, FALSE, None)
    /\ UNCHANGED <<comptime_results, comptime_runs>>
    /\ UNCHANGED <<castVars, lowerVars, worldVars, genVars, parserVars>>
(***************************************************************************)
(* Markers, crates/parser/src/parser/marker.rs.  A Marker or               *)
(* CompletedMarker is a value the grammar holds; it is used at most once,  *)
(* as complete and precede take it by value.  The position it holds is an   *)
(* index into Parser::events, counted from 0.                              *)
(***************************************************************************)
\* number of events of the parser
MaxEvents == 7

\* Event, and the empty slot of Vec<Option<Event>>
StartNode(kind) == [tag |-> "StartNode", kind |-> kind]
FinishNode == [tag |-> "FinishNode"]
AddToken == [tag |-> "AddToken"]

\* p.events[pos]
EventAt(evs, pos) == evs[pos + 1]

\* mem::replace(&mut p.events[pos], event)
ReplaceEvent(evs, pos, event) == [evs EXCEPT ![pos + 1] = event]

\* Vec::insert(pos, event): the events from pos on move up by one
InsertEvent(evs, pos, event) ==
    SubSeq(evs, 1, pos) \o <<event>> \o SubSeq(evs, pos + 1, Len(evs))

\* Marker::new; `of` is the node a marker made by precede is to wrap
NewMarker(id, pos, of) == [id |-> id, pos |-> pos, of |-> of]

Called(op, id, old_event) == [op |-> op, id |-> id, old_event |-> old_event]

\* Parser::new
InitParser ==
    /\ events = <<>>
    /\ markers = {}
    /\ completed = {}
    /\ started = 0
    /\ parser_last = Called("new", 0, None)

\* nothing is parsed
NoParser ==
    /\ events = <<>>
    /\ markers = {}
    /\ completed = {}
    /\ started = 0
    /\ parser_last = Called("none", 0, None)

Running == parser_last.op # "panicked"

\* Parser::start: an empty slot is pushed and a Marker made for its position
Start ==
    /\ Running
    /\ Len(events) < MaxEvents
    /\ events' = Append(events, None)
    /\ markers' = markers \cup {NewMarker(started + 1, Len(events), None)}
    /\ started' = started + 1
    /\ parser_last' = Called("start", started + 1, None)
    /\ UNCHANGED completed
    /\ UNCHANGED <<castVars, lowerVars, worldVars, genVars, comptimeVars>>

\* Parser::bump: a token is added
Bump ==
    /\ Running
    /\ Len(events) < MaxEvents
    /\ events' = Append(events, Some(AddToken))
    /\ parser_last' = Called("bump", 0, None)
    /\ UNCHANGED <<markers, completed, started>>
    /\ UNCHANGED <<castVars, lowerVars, worldVars, genVars, comptimeVars>>

\* Marker::complete; the node kind is written as the marker's number.  When
\* the slot is not empty, a build with debug assertions panics and any other
\* build goes on
Complete(marker) ==
    /\ Running
    /\ marker \in markers
    /\ Len(events) < MaxEvents
    /\ LET old_event == EventAt(events, marker.pos)
           kind == marker.id
       IN \/ /\ events' = Append(ReplaceEvent(events, marker.pos, Some(StartNode(kind))),
                                 Some(FinishNode))
             /\ markers' = markers \ {marker}
             /\ completed' = completed \cup {[id |-> marker.id, pos |-> marker.pos]}
             /\ parser_last' = Called("complete", marker.id, old_event)
          \/ /\ old_event # None
             /\ events' = ReplaceEvent(events, marker.pos, Some(StartNode(kind)))
             /\ markers' = markers \ {marker}
             /\ parser_last' = Called("panicked", marker.id, old_event)
             /\ UNCHANGED completed
    /\ UNCHANGED started
    /\ UNCHANGED <<castVars, lowerVars, worldVars, genVars, comptimeVars>>

\* CompletedMarker::precede
Precede(completed_marker) ==
    /\ Running
    /\ completed_marker \in completed
    /\ Len(events) < MaxEvents
    /\ events' = InsertEvent(events, completed_marker.pos, None)
    /\ completed' = completed \ {completed_marker}
    /\ markers' = markers \cup
          {NewMarker(started + 1, completed_marker.pos, Some(completed_marker.id))}
    /\ started' = started + 1
    /\ parser_last' = Called("precede", started + 1, None)
    /\ UNCHANGED <<castVars, lowerVars, worldVars, genVars, comptimeVars>>
(***************************************************************************)
(* SpecCast: types are allocated in the arena, then one of the two         *)
(* functions is called on a pair of types over the arena.                  *)
(***************************************************************************)
NoCall == [fn |-> "none"]

InitCast ==
    /\ resolved_arena = <<>>
    /\ cast_call = NoCall
    /\ NoCodeGen /\ NoComptime /\ NoParser
    /\ InitWorld(<<<<Def("main", FALSE)>>>>)

\* inference stores the sub-type of a pointer, array or slice type
AllocTy ==
    /\ cast_call = NoCall
    /\ Len(resolved_arena) < MaxArena
    /\ \E ty \in ResolvedTys(Len(resolved_arena)) :
           resolved_arena' = Append(resolved_arena, ty)
    /\ UNCHANGED <<cast_call, lowerVars, worldVars, laterVars>>

CallCanFit ==
    /\ cast_call = NoCall
    /\ \E found \in ResolvedTys(Len(resolved_arena)),
          expected \in ResolvedTys(Len(resolved_arena)) :
           cast_call' = [fn |-> "can_fit", found |-> found, expected |-> expected,
                         result |-> CanFit(resolved_arena, found, expected)]
    /\ UNCHANGED <<resolved_arena, lowerVars, worldVars, laterVars>>

CallMaxCast ==
    /\ cast_call = NoCall
    /\ \E first \in ResolvedTys(Len(resolved_arena)),
          second \in ResolvedTys(Len(resolved_arena)) :
           cast_call' = [fn |-> "max_cast", first |-> first, second |-> second,
                         result |-> MaxCast(first, second)]
    /\ UNCHANGED <<resolved_arena, lowerVars, worldVars, laterVars>>

CallPrimitiveCastable ==
    /\ cast_call = NoCall
    /\ \E from \in ResolvedTys(Len(resolved_arena)),
          to \in ResolvedTys(Len(resolved_arena)) :
           cast_call' = [fn |-> "primitive_castable", from |-> from, to |-> to,
                         result |-> PrimitiveCastable(from, to)]
    /\ UNCHANGED <<resolved_arena, lowerVars, worldVars, laterVars>>

NextCast ==
    \/ AllocTy
    \/ CallCanFit
    \/ CallMaxCast
    \/ CallPrimitiveCastable

SpecCast == InitCast /\ [][NextCast]_vars

(***************************************************************************)
(* SpecLower: lower() on the files whose definitions are built from the    *)
(* steps above.                                                            *)
(***************************************************************************)
InitLowering ==
    /\ resolved_arena = <<>>
    /\ cast_call = NoCall
    /\ NoCodeGen /\ NoComptime /\ NoParser
    /\ InitLower

SpecLower == InitLowering /\ [][LowerStep]_vars

(***************************************************************************)
(* SpecLiterals: lower() on the files whose two definitions have a         *)
(* literal for value.                                                      *)
(***************************************************************************)
InitLiterals ==
    /\ resolved_arena = <<>>
    /\ cast_call = NoCall
    /\ NoCodeGen /\ NoComptime /\ NoParser
    /\ InitWorld(<<<<Def("main", FALSE), Def("a", FALSE)>>>>)

NextLiterals ==
    \/ LowerGlobal
    \/ GlobalEnd
    \/ \E text \in IntLiteralTexts : IntLiteral(text)
    \/ \E components \in CharLiteralTexts : CharLiteral(components)

SpecLiterals == InitLiterals /\ [][NextLiterals]_vars

(***************************************************************************)
(* SpecArrays: lower() on the files whose definition is built from array   *)
(* literals and identifiers.                                               *)
(***************************************************************************)
InitArrays ==
    /\ resolved_arena = <<>>
    /\ cast_call = NoCall
    /\ NoCodeGen /\ NoComptime /\ NoParser
    /\ InitWorld(<<<<Def("main", FALSE)>>>>)

NextArrays ==
    \/ LowerGlobal
    \/ GlobalEnd
    \/ \E name \in Names : VarRef(name)
    \/ \E size \in ArraySizeInputs, has_body \in BOOLEAN : ArrayBegin(size, has_body)
    \/ ArrayTy
    \/ ArrayItem
    \/ ArrayEnd

SpecArrays == InitArrays /\ [][NextArrays]_vars

(***************************************************************************)
(* SpecUids: a compilation of two files, of two definitions and of one,    *)
(* built from `distinct` types, struct declarations with fields named `a`  *)
(* and identifiers.                                                        *)
(***************************************************************************)
UidFiles ==
    {<<<<Def("main", FALSE), Def("a", FALSE)>>, <<Def("main", FALSE)>>>>}

InitUids ==
    /\ resolved_arena = <<>>
    /\ cast_call = NoCall
    /\ NoCodeGen /\ NoComptime /\ NoParser
    /\ \E files \in UidFiles : InitWorld(files)

NextUids ==
    \/ LowerGlobal
    \/ GlobalEnd
    \/ \E name \in Names : VarRef(name)
    \/ DistinctBegin
    \/ DistinctEnd
    \/ StructBegin
    \/ StructField("a")
    \/ StructFieldEnd
    \/ StructEnd
    \/ NextFile

SpecUids == InitUids /\ [][NextUids]_vars

(***************************************************************************)
(* SpecExtern: lower() on the files whose definition is built from         *)
(* lambdas with and without `extern`, blocks, local definitions and        *)
(* identifiers.                                                            *)
(***************************************************************************)
InitExtern ==
    /\ resolved_arena = <<>>
    /\ cast_call = NoCall
    /\ NoCodeGen /\ NoComptime /\ NoParser
    /\ InitWorld(<<<<Def("main", FALSE)>>>>)

NextExtern ==
    \/ LowerGlobal
    \/ GlobalEnd
    \/ \E name \in Names : VarRef(name)
    \/ BlockOpen
    \/ BlockStmt
    \/ BlockEnd
    \/ \E name \in Names : DefineBegin(name, FALSE)
    \/ DefineEnd
    \/ \E has_extern \in BOOLEAN : LambdaBegin(has_extern)
    \/ \E name \in Names : LambdaParam(name)
    \/ ParamEnd
    \/ LambdaBody
    \/ ExternBody
    \/ LambdaEnd

SpecExtern == InitExtern /\ [][NextExtern]_vars

(***************************************************************************)
(* SpecImports: lower() on a file whose definitions are built from imports *)
(* and blocks, with and without the fake file system, over a disk that     *)
(* has the imported file or not.                                           *)
(***************************************************************************)
InitImports ==
    /\ resolved_arena = <<>>
    /\ cast_call = NoCall
    /\ NoCodeGen /\ NoComptime /\ NoParser
    /\ fake_file_system \in BOOLEAN
    /\ disk \in Disks
    /\ uid_gen = NewUidGen
    /\ world_bodies = <<>>
    /\ modules = <<>>
    /\ InitCtx(<<Def("main", FALSE), Def("a", FALSE)>>)

NextImports ==
    \/ LowerGlobal
    \/ GlobalEnd
    \/ BlockOpen
    \/ BlockStmt
    \/ BlockEnd
    \/ \E import \in ImportInputs : Import(import)

SpecImports == InitImports /\ [][NextImports]_vars

(***************************************************************************)
(* SpecGlobals: lower() on the files of up to three definitions, named     *)
(* or not, annotated or not, several of which may have the same name;      *)
(* annotations and values are identifiers, undefined or primitive.                *)
(***************************************************************************)
GlobalDefs == {Def(name, has_ty) : name \in {"main", "b", NoName}, has_ty \in BOOLEAN}

GlobalFiles ==
    {<<first>> : first \in GlobalDefs}
    \cup {<<first, second>> : first \in GlobalDefs, second \in GlobalDefs}
    \cup {<<first, second, third>> :
              first \in GlobalDefs, second \in GlobalDefs, third \in GlobalDefs}

InitGlobals ==
    /\ resolved_arena = <<>>
    /\ cast_call = NoCall
    /\ NoCodeGen /\ NoComptime /\ NoParser
    /\ \E file \in GlobalFiles : InitWorld(<<file>>)

NextGlobals ==
    \/ LowerGlobal
    \/ GlobalTy
    \/ GlobalEnd
    \/ \E name \in Names : VarRef(name)

SpecGlobals == InitGlobals /\ [][NextGlobals]_vars

(***************************************************************************)
(* SpecNesting: lower() on the files whose definition is built from        *)
(* lambdas (with parameters, return types, with and without `extern`),     *)
(* comptime blocks, blocks, local definitions and identifiers, nested in   *)
(* each other.                                                             *)
(***************************************************************************)
InitNesting ==
    /\ resolved_arena = <<>>
    /\ cast_call = NoCall
    /\ NoCodeGen /\ NoComptime /\ NoParser
    /\ InitWorld(<<<<Def("main", FALSE)>>>>)

NextNesting ==
    \/ NextExtern
    \/ LambdaReturnTy
    \/ ComptimeBegin
    \/ ComptimeEnd

SpecNesting == InitNesting /\ [][NextNesting]_vars
(***************************************************************************)
(* SpecGen: the driver over every program of three functions with up to    *)
(* MaxCalls calls in the bodies of the entry point and of f, and one in the *)
(* body of g; g may be extern, and so may the entry point.  SpecMain: an   *)
(* entry point of every return type that calls one function, on every      *)
(* pointer width.                                                          *)
(***************************************************************************)
\* nothing is lowered or cast
NoLowering ==
    /\ resolved_arena = <<>>
    /\ cast_call = NoCall
    /\ InitWorld(<<<<>>>>)

Programs ==
    {[entry_point |-> "entry",
      pointer_bits |-> 64,
      fns |-> [fqn \in Fqns |-> Function(is_extern[fqn], calls[fqn], IInt(32))]] :
        is_extern \in {flags \in [Fqns -> BOOLEAN] : ~flags["f"]},
        calls \in {lists \in [Fqns -> CalleeLists] : Len(lists["g"]) <= 1}}

InitGen ==
    /\ NoLowering /\ NoComptime /\ NoParser
    /\ \E p \in Programs : InitCodeGen(p)

NextGen ==
    \/ Finish
    \/ CompileFunction
    \/ CompileCall
    \/ CompileFunctionEnd
    \/ QueueEmpty
    \/ GenerateMain

SpecGen == InitGen /\ [][NextGen]_vars

\* the driver runs to the end: each step is taken once it is possible
FairSpecGen == SpecGen /\ WF_vars(NextGen)

ReturnTys ==
    {IInt(w) : w \in IntWidths} \cup {UInt(w) : w \in IntWidths}
        \cup {Bool, Void, Float(64)}

MainPrograms ==
    {[entry_point |-> "entry",
      pointer_bits |-> bits,
      fns |-> [fqn \in Fqns |-> Function(FALSE, IF fqn = "entry" THEN <<"f">> ELSE <<>>,
                                          IF fqn = "entry" THEN ty ELSE Void)]] :
        bits \in PointerWidths, ty \in ReturnTys}

InitMain ==
    /\ NoLowering /\ NoComptime /\ NoParser
    /\ \E p \in MainPrograms : InitCodeGen(p)

SpecMain == InitMain /\ [][NextGen]_vars
(***************************************************************************)
(* SpecComptime: one compilation; inference demands any blocks in any      *)
(* order, a block any number of times, and so does the code generation.    *)
(***************************************************************************)
InitComptimes ==
    /\ NoLowering /\ NoCodeGen /\ NoParser
    /\ InitComptime

NextComptime ==
    \/ \E comptime \in Range(Comptimes) : InferenceDemands(comptime)
    \/ EvalRemaining
    \/ \E comptime \in Range(Comptimes) : CodegenReads(comptime)
    \/ CompileObjEnd

SpecComptime == InitComptimes /\ [][NextComptime]_vars
(***************************************************************************)
(* SpecMarkers: the grammar starts, completes and precedes markers and     *)
(* adds tokens in any order, up to MaxEvents events.                       *)
(***************************************************************************)
InitMarkers ==
    /\ NoLowering /\ NoCodeGen /\ NoComptime
    /\ InitParser

NextMarkers ==
    \/ Start
    \/ Bump
    \/ \E marker \in markers : Complete(marker)
    \/ \E completed_marker \in completed : Precede(completed_marker)

SpecMarkers == InitMarkers /\ [][NextMarkers]_vars
(***************************************************************************)
(* Claims about name resolution, checked under SpecLower.  What a name     *)
(* should refer to is read off the source being lowered: the definitions   *)
(* completed so far (def_log), the blocks and bodies that are open (stack) *)
(* and the parameter lists of the open lambdas.                            *)
(***************************************************************************)
\* this step lowers a reference to `name`
IsVarRefStep(name) ==
    /\ last'.op = "var_ref" /\ last'.ref = name
    /\ Len(bodies'.exprs) = Len(bodies.exprs) + 1
\* the expression a step has just allocated
NewExpr == bodies'.exprs[Len(bodies'.exprs)]
\* the expression allocated last
LastExpr == bodies.exprs[Len(bodies.exprs)]
\* the last step lowered a reference to `name`
JustLowered(name) ==
    last.op = "var_ref" /\ last.ref = name /\ bodies.exprs # <<>>

\* the parameter names of the lambda whose body is frame i
BodyParamNames(i) ==
    IF stack[i].kind = "lambda_body"
    THEN {stack[i].params[k].name : k \in 1 .. Len(stack[i].params)}
    ELSE {}
\* the parameters of the body being lowered, and those of the bodies around it
OwnParams == IF CurBodyFrame = 0 THEN {} ELSE BodyParamNames(CurBodyFrame)
OuterParams == UNION {BodyParamNames(i) : i \in BodyFrames \ {CurBodyFrame}}
\* the completed definitions of `name` in a block that is still open: those of
\* the body being lowered, and those of the bodies around it
VisibleDefs(name) ==
    {k \in 1 .. Len(def_log) :
        /\ def_log[k].name = name
        /\ def_log[k].block \in OpenBlocks
        /\ def_log[k].body = CurBody}
OuterDefs(name) ==
    {k \in 1 .. Len(def_log) :
        /\ def_log[k].name = name
        /\ def_log[k].block \in OpenBlocks
        /\ def_log[k].body # CurBody}
\* `name` is known only as a local or parameter of the code around the body
OnlyOuter(name) ==
    /\ CurBodyFrame # 0
    /\ OuterDefs(name) # {} \/ name \in OuterParams
    /\ VisibleDefs(name) = {}
    /\ name \notin OwnParams
    /\ name \notin index
    /\ name \notin PrimitiveNames

\* C1: lambda bodies and comptime bodies do not capture: inside either, a
\* reference to a name that is only a local or a parameter of the code around
\* the body lowers to Expr::Missing and pushes exactly one UndefinedRef
\* diagnostic for that name.
C1_BodiesDoNotCapture ==
    [][\A name \in Names :
          (IsVarRefStep(name) /\ OnlyOuter(name)) =>
              /\ NewExpr = ExprMissing
              /\ diagnostics' = Append(diagnostics, UndefinedRef(name))]_vars

C1_Witness ==
    /\ JustLowered("a")
    /\ OnlyOuter("a")
    /\ OuterDefs("a") # {}
    /\ stack[CurBodyFrame].kind = "lambda_body"
    /\ LastExpr = ExprMissing
    /\ diagnostics = <<UndefinedRef("a")>>

C3_LocalIsMostRecentVisible ==
    [][\A name \in Names :
          IsVarRefStep(name) =>
              IF VisibleDefs(name) = {}
              THEN NewExpr.tag # "Local"
              ELSE NewExpr = ExprLocal(def_log[MaxOf(VisibleDefs(name))].def)]_vars

C3_Witness ==
    /\ JustLowered("a")
    /\ Cardinality(VisibleDefs("a")) = 2
    /\ Top.kind = "define" /\ Top.name = "a"
    /\ LastExpr = ExprLocal(1)

(***************************************************************************)
(* Claims about cast.rs, checked under SpecCast                            *)
(***************************************************************************)
IsCanFit == cast_call.fn = "can_fit"
IsMaxCast == cast_call.fn = "max_cast"

\* C4: max_cast absorbs Unknown: max_cast(Unknown, T) = Some(T) and
\* max_cast(T, Unknown) = Some(T) for every type T, Unknown included; it never
\* fails when an argument is Unknown.
C4_MaxCastAbsorbsUnknown ==
    IsMaxCast =>
        /\ (cast_call.first = Unknown => cast_call.result = Some(cast_call.second))
        /\ (cast_call.second = Unknown => cast_call.result = Some(cast_call.first))

C4_Witness ==
    /\ IsMaxCast
    /\ cast_call.first.tag = "Pointer"
    /\ cast_call.second = Unknown
    /\ cast_call.result = Some(cast_call.first)

\* C5 as stated: can_fit(T, T) returns true for every resolved type T.
C5_SameTyFitsEveryTy ==
    (IsCanFit /\ cast_call.found = cast_call.expected) => cast_call.result = Ok(TRUE)

\* C5 amended: can_fit(T, T) returns true for every resolved type T other than
\* Unknown; can_fit(Unknown, Unknown) fails the assertion of can_fit.
C5_SameTyFits ==
    (IsCanFit /\ cast_call.found = cast_call.expected) =>
        IF cast_call.found = Unknown
        THEN cast_call.result = AssertFailed
        ELSE cast_call.result = Ok(TRUE)

C5_Witness ==
    /\ IsCanFit
    /\ cast_call.found = cast_call.expected
    /\ cast_call.found.tag = "Slice"
    /\ cast_call.result = Ok(TRUE)

\* C6 as stated: for every width w, can_fit(UInt(w), IInt(w)) is false and
\* can_fit(UInt(w), IInt(w + 1)) is true.
C6_UIntIntoIIntEveryWidth ==
    (IsCanFit /\ IsUInt(cast_call.found) /\ IsIInt(cast_call.expected)) =>
        /\ (cast_call.expected.w = cast_call.found.w => cast_call.result = Ok(FALSE))
        /\ (cast_call.expected.w = cast_call.found.w + 1 => cast_call.result = Ok(TRUE))

\* C6 amended: for every width w > 0, can_fit(UInt(w), IInt(w)) is false; the
\* weak uint fits the weak int, can_fit(UInt(0), IInt(0)) is true; and for
\* every width w, can_fit(UInt(w), IInt(w + 1)) is true.
C6_UIntIntoIInt ==
    (IsCanFit /\ IsUInt(cast_call.found) /\ IsIInt(cast_call.expected)) =>
        /\ (cast_call.expected.w = cast_call.found.w =>
                cast_call.result = Ok(cast_call.found.w = 0))
        /\ (cast_call.expected.w = cast_call.found.w + 1 => cast_call.result = Ok(TRUE))

C6_Witness ==
    /\ IsCanFit
    /\ IsUInt(cast_call.found) /\ IsIInt(cast_call.expected)
    /\ cast_call.found.w > 0
    /\ cast_call.expected.w = cast_call.found.w
    /\ cast_call.result = Ok(FALSE)

\* C7: a signed integer of any width, the weak IInt(0) included, fits the weak
\* unsigned UInt(0) and fits no concrete unsigned UInt(n), n > 0.
C7_IIntIntoUInt ==
    (IsCanFit /\ IsIInt(cast_call.found) /\ IsUInt(cast_call.expected)) =>
        cast_call.result = Ok(cast_call.expected.w = 0)

C7_Witness ==
    /\ IsCanFit
    /\ cast_call.found = IInt(0)
    /\ cast_call.expected = UInt(0)
    /\ cast_call.result = Ok(TRUE)

\* C8: on distinct integer types can_fit is the directional width rule: IInt
\* into IInt and UInt into UInt fit iff the expected width is 0 or >= the found
\* width; UInt into IInt fits iff the expected width is 0 or > the found width;
\* for all pairs of widths, the found width 0 included.
C8_DirectionalWidthRule ==
    (/\ IsCanFit
     /\ IsInt(cast_call.found) /\ IsInt(cast_call.expected)
     /\ cast_call.found # cast_call.expected) =>
        LET fw == cast_call.found.w
            ew == cast_call.expected.w
        IN  /\ (cast_call.found.tag = cast_call.expected.tag =>
                    cast_call.result = Ok(ew = 0 \/ ew >= fw))
            /\ (IsUInt(cast_call.found) /\ IsIInt(cast_call.expected) =>
                    cast_call.result = Ok(ew = 0 \/ ew > fw))

C8_Witness ==
    /\ IsCanFit
    /\ IsUInt(cast_call.found) /\ IsUInt(cast_call.expected)
    /\ cast_call.found.w > 0
    /\ cast_call.expected.w = 0
    /\ cast_call.result = Ok(TRUE)

\* C9 as stated: on unequal composite types can_fit is structural: Pointer(a)
\* fits Pointer(b) iff can_fit(a, b); Array(n, a) fits Array(m, b) iff n = m
\* and can_fit(a, b); every other pair of unequal types, none an integer pair,
\* does not fit; and the result is a boolean for every pointee or element type
\* stored in the arena, at any nesting depth.
C9_StructuralFit ==
    (/\ IsCanFit
     /\ cast_call.found # Unknown /\ cast_call.expected # Unknown
     /\ cast_call.found # cast_call.expected) =>
        LET found == cast_call.found
            expected == cast_call.expected
            sub == CanFit(resolved_arena, ArenaGet(resolved_arena, found.sub_ty),
                          ArenaGet(resolved_arena, expected.sub_ty))
        IN  /\ cast_call.result.ok
            /\ (found.tag = "Pointer" /\ expected.tag = "Pointer" =>
                    cast_call.result = sub)
            /\ (found.tag = "Array" /\ expected.tag = "Array" =>
                    cast_call.result.ret = (found.size = expected.size /\ sub.ok /\ sub.ret))
            /\ ((/\ ~(IsInt(found) /\ IsInt(expected))
                 /\ ~(found.tag = "Pointer" /\ expected.tag = "Pointer")
                 /\ ~(found.tag = "Array" /\ expected.tag = "Array")) =>
                    cast_call.result = Ok(FALSE))

\* the table of max_cast in the specification, for types other than Unknown
MaxCastTable(a, b) ==
    IF a = b THEN Some(a)
    ELSE IF ~(IsInt(a) /\ IsInt(b)) THEN None
    ELSE IF a.w = 0 /\ b.w = 0 THEN Some(IInt(0))
    ELSE IF a.tag = b.tag THEN (IF a.w >= b.w THEN Some(a) ELSE Some(b))
    ELSE LET signed == IF IsIInt(a) THEN a ELSE b
             unsigned == IF IsIInt(a) THEN b ELSE a
         IN  IF signed.w > unsigned.w THEN Some(signed) ELSE None

IsPrimitiveCastable == cast_call.fn = "primitive_castable"

\* C11: primitive_castable permits every conversion between the types Bool,
\* any IInt and any UInt, and permits the conversions between an integer and a
\* float in both directions.
C11_CastableWithFloats ==
    IsPrimitiveCastable =>
        /\ (IsBoolOrInt(cast_call.from) /\ IsBoolOrInt(cast_call.to)
                => cast_call.result = TRUE)
        /\ (IsInt(cast_call.from) /\ cast_call.to.tag = "Float"
                => cast_call.result = TRUE)
        /\ (cast_call.from.tag = "Float" /\ IsInt(cast_call.to)
                => cast_call.result = TRUE)

\* C12: primitive_castable is symmetric, primitive_castable(a, b) =
\* primitive_castable(b, a) for all types a and b; Bool to IInt(n) and IInt(n)
\* to Bool are both castable for every n, and a pointer to IInt(n) is not.
C12_CastableSymmetric ==
    IsPrimitiveCastable =>
        /\ cast_call.result = PrimitiveCastable(cast_call.to, cast_call.from)
        /\ (\/ cast_call.from = Bool /\ IsIInt(cast_call.to)
            \/ IsIInt(cast_call.from) /\ cast_call.to = Bool)
                => cast_call.result = TRUE
        /\ (cast_call.from.tag = "Pointer" /\ IsIInt(cast_call.to))
                => cast_call.result = FALSE

C12_Witness ==
    /\ IsPrimitiveCastable
    /\ cast_call.from.tag = "Pointer"
    /\ cast_call.to = IInt(MaxWidth)
    /\ cast_call.result = FALSE

(***************************************************************************)
(* Claims about literals, checked under SpecLiterals                       *)
(***************************************************************************)
\* this step lowers the integer literal `text`
IsIntLiteralStep(text) ==
    /\ last'.op = "int_literal" /\ last'.ref = text
    /\ Len(bodies'.exprs) = Len(bodies.exprs) + 1
\* the number written by the digits of a base or of an exponent
WrittenNumber(chars) ==
    LET digits == SelectSeq(chars, IsDigitChar)
    IN  Norm([i \in 1 .. Len(digits) |-> DigitValue(digits[i])])
\* base * 10^exp: the digits of the base followed by exp zeros
TimesPowerOfTen(base, exp) ==
    IF base = <<0>> THEN <<0>> ELSE base \o [i \in 1 .. exp |-> 0]
\* base * 10^exp fits in 64 unsigned bits; the exponents above 99 are far
\* beyond what any base but 0 can take
ProductFits(base, exp) ==
    \/ base = <<0>>
    \/ Len(exp) <= 2 /\ BigLeq(TimesPowerOfTen(base, BigToInt(exp)), U64Max)
\* 10^exp fits in 64 unsigned bits: 10^19 < 2^64 < 10^20
PowerFits(exp) == BigLeq(exp, <<1, 9>>)
\* the literal lowers to IntLiteral(base * 10^exp) without a diagnostic
LowersToProduct(base, exp) ==
    /\ NewExpr = ExprIntLiteral(
                    TimesPowerOfTen(base, IF Len(exp) <= 2 THEN BigToInt(exp) ELSE 0))
    /\ diagnostics' = diagnostics
\* the literal lowers to Missing with exactly one OutOfRangeIntLiteral
LowersToOutOfRange ==
    /\ NewExpr = ExprMissing
    /\ diagnostics' = Append(diagnostics, OutOfRangeIntLiteral)

\* C13 as stated: an integer literal with digits base and optional exponent
\* exp lowers to IntLiteral(base * 10^exp) exactly when base and base * 10^exp
\* fit in 64 unsigned bits, and in every other case to Missing with exactly one
\* OutOfRangeIntLiteral.
C13_IntLiteralExactlyWhenProductFits ==
    [][\A b \in LiteralBases :
          /\ IsIntLiteralStep(b) =>
                IF BigLeq(WrittenNumber(b), U64Max)
                THEN LowersToProduct(WrittenNumber(b), <<0>>)
                ELSE LowersToOutOfRange
          /\ \A e \in {"e", "E"}, x \in LiteralExponents :
                IsIntLiteralStep(b \o <<e>> \o x) =>
                    IF /\ BigLeq(WrittenNumber(b), U64Max)
                       /\ ProductFits(WrittenNumber(b), WrittenNumber(x))
                    THEN LowersToProduct(WrittenNumber(b), WrittenNumber(x))
                    ELSE LowersToOutOfRange]_vars

\* C13 amended: the literal lowers to IntLiteral(base * 10^exp) exactly when
\* base fits in 64 unsigned bits and, if there is an exponent, 10^exp fits in
\* 64 unsigned bits and base * 10^exp fits in 64 unsigned bits; in every other
\* case (the base 0 with an exponent of 20 or more included) it lowers to
\* Missing with exactly one OutOfRangeIntLiteral; the value never wraps.
C13_IntLiteralChecked ==
    [][\A b \in LiteralBases :
          /\ IsIntLiteralStep(b) =>
                IF BigLeq(WrittenNumber(b), U64Max)
                THEN LowersToProduct(WrittenNumber(b), <<0>>)
                ELSE LowersToOutOfRange
          /\ \A e \in {"e", "E"}, x \in LiteralExponents :
                IsIntLiteralStep(b \o <<e>> \o x) =>
                    IF /\ BigLeq(WrittenNumber(b), U64Max)
                       /\ PowerFits(WrittenNumber(x))
                       /\ ProductFits(WrittenNumber(b), WrittenNumber(x))
                    THEN LowersToProduct(WrittenNumber(b), WrittenNumber(x))
                    ELSE LowersToOutOfRange]_vars

\* 1844674407370955162e1 overflows in the product alone
C13_Witness ==
    /\ last.op = "int_literal"
    /\ last.ref = DigitChars(<<1, 8, 4, 4, 6, 7, 4, 4, 0, 7, 3, 7, 0, 9, 5, 5, 1, 6, 2>>)
                    \o <<"e">> \o DigitChars(<<1>>)
    /\ LastExpr = ExprMissing
    /\ diagnostics = <<OutOfRangeIntLiteral>>

\* this step lowers the character literal with these components
IsCharLiteralStep(components) ==
    /\ last'.op = "char_literal" /\ last'.ref = components
    /\ Len(bodies'.exprs) = Len(bodies.exprs) + 1
    /\ Len(diagnostics') >= Len(diagnostics)
    /\ SubSeq(diagnostics', 1, Len(diagnostics)) = diagnostics
\* the diagnostics a step has pushed
NewDiagnostics ==
    {diagnostics'[i] : i \in Len(diagnostics) + 1 .. Len(diagnostics')}
RECURSIVE ResultingText(_)
\* the chars the components of a literal stand for; an escape that is not
\* known stands for none
ResultingText(components) ==
    IF components = <<>> THEN <<>>
    ELSE LET c == Head(components)
         IN  (IF c.tag = "Contents" THEN c.chars
              ELSE IF c.escape_char \in EscapeChars THEN <<EscapedChar(c.escape_char)>>
              ELSE <<>>) \o ResultingText(Tail(components))
RECURSIVE WrittenUnits(_)
\* the units written in a literal: one for each escape, known or not, and one
\* for each char of the contents
WrittenUnits(components) ==
    IF components = <<>> THEN 0
    ELSE (IF Head(components).tag = "Contents" THEN Len(Head(components).chars) ELSE 1)
            + WrittenUnits(Tail(components))

\* C14 as stated: a character literal whose components produce zero resulting
\* code units emits EmptyCharLiteral, one that produces more than one emits
\* TooManyCharsInCharLiteral, one that produces a single code unit above 255
\* emits NonU8CharLiteral; whenever a diagnostic is emitted for the literal the
\* lowered expression is CharLiteral(0).
C14_CharLiteralByResultingUnits ==
    [][\A components \in CharLiteralTexts :
          IsCharLiteralStep(components) =>
              LET text == ResultingText(components)
              IN  /\ Len(text) = 0 => EmptyCharLiteral \in NewDiagnostics
                  /\ Len(text) > 1 => TooManyCharsInCharLiteral \in NewDiagnostics
                  /\ (Len(text) = 1 /\ text[1] > 255) => NonU8CharLiteral \in NewDiagnostics
                  /\ NewDiagnostics # {} => NewExpr = ExprCharLiteral(0)]_vars

\* C14 amended: counting one unit for every escape, known or not, and one for
\* every char of the contents, a character literal emits EmptyCharLiteral
\* exactly when it has no unit, TooManyCharsInCharLiteral exactly when it has
\* more than one, NonU8CharLiteral exactly when it has one and that is a char
\* above 255, and InvalidEscape for each escape that is not known; whenever a
\* diagnostic is emitted the lowered expression is CharLiteral(0), and otherwise
\* it is CharLiteral of the single char.
C14_CharLiteralByWrittenUnits ==
    [][\A components \in CharLiteralTexts :
          IsCharLiteralStep(components) =>
              LET text == ResultingText(components)
                  units == WrittenUnits(components)
                  unknown == {i \in 1 .. Len(components) :
                                /\ components[i].tag = "Escape"
                                /\ components[i].escape_char \notin EscapeChars}
              IN  /\ EmptyCharLiteral \in NewDiagnostics <=> units = 0
                  /\ TooManyCharsInCharLiteral \in NewDiagnostics <=> units > 1
                  /\ NonU8CharLiteral \in NewDiagnostics
                        <=> (units = 1 /\ Len(text) = 1 /\ text[1] > 255)
                  /\ InvalidEscape \in NewDiagnostics <=> unknown # {}
                  /\ Len(diagnostics') - Len(diagnostics)
                        = Cardinality(unknown)
                            + (IF units = 1 /\ (text = <<>> \/ text[1] <= 255) THEN 0 ELSE 1)
                  /\ NewExpr = IF NewDiagnostics # {} THEN ExprCharLiteral(0)
                               ELSE ExprCharLiteral(text[1])]_vars

\* the literal of a single unknown escape: one InvalidEscape, no
\* EmptyCharLiteral, and the byte 0
C14_Witness ==
    /\ last.op = "char_literal"
    /\ last.ref = <<Escape("q")>>
    /\ LastExpr = ExprCharLiteral(0)
    /\ diagnostics = <<InvalidEscape>>

(***************************************************************************)
(* Claims about array literals, checked under SpecArrays                   *)
(***************************************************************************)
\* this step finishes the lowering of an array literal
IsArrayEndStep ==
    /\ last'.op = "array_end"
    /\ Len(bodies'.exprs) = Len(bodies.exprs) + 1
    /\ Len(diagnostics') >= Len(diagnostics)
    /\ SubSeq(diagnostics', 1, Len(diagnostics)) = diagnostics
\* the ArraySizeMismatch diagnostics among those a step has pushed
NewMismatches == {d \in NewDiagnostics : d.kind = "ArraySizeMismatch"}

\* C15: for an array literal with a literal size s and a body of n items,
\* ArraySizeMismatch{found: n, expected: s} is emitted exactly when n differs
\* from s, the reported found and expected are n and s, and the node records
\* the size s; a size that is not an integer literal emits ArraySizeNotConst
\* and the node records no size; a literal size without body, or a body
\* without size, emits neither diagnostic.
C15_ArraySizeDiagnostics ==
    [][IsArrayEndStep =>
          LET size == last'.ref.size
              items_len == last'.ref.items_len
              in_range == size.tag = "IntLiteral"
                            /\ BigLeq(WrittenNumber(size.text), U64Max)
              s == WrittenNumber(size.text)
          IN  /\ (in_range /\ items_len # None) =>
                    /\ NewMismatches =
                          IF s # NatDigits(items_len[1])
                          THEN {ArraySizeMismatch(NatDigits(items_len[1]), s)}
                          ELSE {}
                    /\ NewExpr.size = Some(s)
              /\ size.tag = "Other" =>
                    /\ ArraySizeNotConst \in NewDiagnostics
                    /\ NewExpr.size = None
              /\ ((in_range /\ items_len = None) \/ (size.tag = "None" /\ items_len # None)) =>
                    /\ NewMismatches = {}
                    /\ ArraySizeNotConst \notin NewDiagnostics]_vars

(***************************************************************************)
(* Claims about nominal types                                              *)
(***************************************************************************)
RECURSIVE Flatten(_)
\* the concatenation of a sequence of sequences
Flatten(seqs) == IF seqs = <<>> THEN <<>> ELSE Head(seqs) \o Flatten(Tail(seqs))

\* the expressions of the compilation in lowering order: the files already
\* lowered, then the file being lowered, each in the order of allocation
AllExprs == Flatten([i \in 1 .. Len(world_bodies) |-> world_bodies[i].exprs]) \o bodies.exprs

IsNominal(expr) == expr.tag \in {"Distinct", "StructDecl"}

\* the `distinct` types and struct declarations of the compilation, in
\* lowering order
NominalExprs == SelectSeq(AllExprs, IsNominal)

\* the nominal types lowered for the files already finished
EarlierNominals ==
    SelectSeq(Flatten([i \in 1 .. Len(world_bodies) |-> world_bodies[i].exprs]), IsNominal)

\* C16: every `distinct` type and every struct declaration lowered with the
\* same UID generator has a UID of its own: over all the files of the
\* compilation no two of them share a UID, and the UIDs are strictly
\* increasing in lowering order.
C16_UidsUniqueAndIncreasing ==
    /\ \A i, j \in 1 .. Len(NominalExprs) :
           i # j => NominalExprs[i].uid # NominalExprs[j].uid
    /\ \A i, j \in 1 .. Len(NominalExprs) :
           i < j => NominalExprs[i].uid < NominalExprs[j].uid

\* a `distinct` type and a struct declaration in the first file, and the
\* second file has lowered a nominal type too
C16_Witness ==
    /\ \E i, j \in 1 .. Len(EarlierNominals) :
           EarlierNominals[i].tag = "Distinct" /\ EarlierNominals[j].tag = "StructDecl"
    /\ \E i \in 1 .. Len(bodies.exprs) : IsNominal(bodies.exprs[i])

(***************************************************************************)
(* Claims about lambdas                                                    *)
(***************************************************************************)
\* lower_lambda has just checked the `extern` of the lambda on top
IsExternCheck ==
    /\ last'.op = "lambda_body" /\ Len(stack') = Len(stack)
    /\ stack # <<>> /\ Top.kind \in {"lambda_params", "lambda_ret"}
    /\ Top.has_extern

\* the lambda on top is the value of a global itself
DirectValueOfGlobal == Len(stack) = 2 /\ stack[1].kind = "global"

\* lower_lambda has just returned for an extern lambda
IsExternLambdaEnd ==
    /\ last'.op = "lambda_end" /\ Len(stack') = Len(stack) - 1
    /\ stack # <<>> /\ Top.kind = "lambda_body"
    /\ Top.has_extern

\* C17: an extern lambda that is the direct value of a global is lowered
\* without a diagnostic; an extern lambda anywhere else gives exactly one
\* NonGlobalExtern diagnostic and is still lowered to a Lambda node whose
\* is_extern is true.
C17_ExternOnlyOnGlobals ==
    [][/\ IsExternCheck =>
            IF DirectValueOfGlobal
            THEN diagnostics' = diagnostics
            ELSE diagnostics' = Append(diagnostics, NonGlobalExtern)
       /\ IsExternLambdaEnd =>
            /\ diagnostics' = diagnostics
            /\ Len(bodies'.exprs) = Len(bodies.exprs) + 1
            /\ LET expr == bodies'.exprs[Len(bodies'.exprs)]
               IN  /\ expr.tag = "Lambda"
                   /\ expr.lambda = Len(bodies.lambdas)
                   /\ Len(bodies'.lambdas) = Len(bodies.lambdas) + 1
                   /\ bodies'.lambdas[Len(bodies'.lambdas)].is_extern]_vars

\* an extern lambda that is the value of a local definition has been
\* lowered: one NonGlobalExtern, and the lambda is extern
C17_Witness ==
    /\ last.op = "lambda_end"
    /\ Len(stack) >= 2 /\ Top.kind = "define"
    /\ bodies.lambdas[Len(bodies.lambdas)].is_extern
    /\ diagnostics = <<NonGlobalExtern>>

(***************************************************************************)
(* Claims about imports                                                    *)
(***************************************************************************)
\* lower_expr has just lowered an import
IsImportStep ==
    /\ last'.op = "import"
    /\ Len(bodies'.exprs) = Len(bodies.exprs) + 1

\* the file names the Expr::Import nodes of the Bodies carry
ImportedFileNames(b) ==
    {b.exprs[i].file_name : i \in {j \in 1 .. Len(b.exprs) : b.exprs[j].tag = "Import"}}

\* the string of the import has an escape that is not known
HasInvalidEscape(import) ==
    \E i \in 1 .. Len(import.components) :
        /\ import.components[i].tag = "Escape"
        /\ import.components[i].escape_char \notin EscapeChars

\* the path the import is written with
ImportPath(import) == ReplaceSeparators(LowerStringLiteral(import.components).text)

\* the import fails: an invalid escape in the path, a path that does not end
\* in ".capy", or, outside the fake file system, a file that does not exist
FailedImport(import) ==
    /\ import # NoFile
    /\ \/ HasInvalidEscape(import)
       \/ ~EndsWith(ImportPath(import), DotCapy)
       \/ /\ ~fake_file_system
          /\ PathToString(ResolveImport(ImportPath(import))) \notin disk

\* C18: Bodies.imports holds exactly the FileNames that the Expr::Import
\* nodes produced so far carry; an import that fails (invalid escape in the
\* path, path not ending in ".capy", or file not existing outside the fake
\* file system) is lowered to Missing with a diagnostic and leaves imports
\* as it was.
C18_ImportsAreTheImportNodes ==
    [][/\ bodies'.imports = ImportedFileNames(bodies')
       /\ IsImportStep /\ FailedImport(last'.ref) =>
            /\ bodies'.exprs[Len(bodies'.exprs)] = ExprMissing
            /\ Len(diagnostics') > Len(diagnostics)
            /\ bodies'.imports = bodies.imports]_vars

\* on the real file system, after an import that succeeded, the import of
\* a file that does not exist has failed
C18_Witness ==
    /\ last.op = "import"
    /\ ~fake_file_system
    /\ bodies.imports # {}
    /\ bodies.exprs[Len(bodies.exprs)] = ExprMissing
    /\ diagnostics # <<>>
    /\ diagnostics[Len(diagnostics)].kind = "ImportDoesNotExist"

(***************************************************************************)
(* Claims about the globals of a file                                      *)
(***************************************************************************)
\* Bodies::global_ty, an Option
GlobalTyOf(b, name) ==
    IF name \in DOMAIN b.global_tys THEN Some(b.global_tys[name]) ELSE None

\* lower() has just called lower_global on the next definition
IsLowerGlobalStep == last'.op = "lower_global" /\ root # <<>> /\ root' = Tail(root)

\* C19: when several top-level definitions have the same name only the
\* first is kept: the global's body is the body of the first and its type
\* the annotation of the first (none when the first has none, even if a
\* later one has); the later definitions are not lowered at all, they add
\* no expression and no diagnostic.
C19_FirstDefinitionWins ==
    [][/\ \A name \in DOMAIN bodies.global_bodies :
            /\ name \in DOMAIN bodies'.global_bodies
            /\ bodies'.global_bodies[name] = bodies.global_bodies[name]
            /\ GlobalTyOf(bodies', name) = GlobalTyOf(bodies, name)
       /\ IsLowerGlobalStep /\ Head(root).name \in DOMAIN bodies.global_bodies =>
            /\ bodies' = bodies
            /\ diagnostics' = diagnostics
            /\ stack' = <<>>
       /\ last'.op = "global_ty" => GlobalTyOf(bodies', Top.name) = ret
       /\ last'.op = "global_end" =>
            /\ bodies'.global_bodies[Top.name] = ret[1]
            /\ Top.ty_annotation = (GlobalTyOf(bodies', Top.name) # None)]_vars

\* the second definition of `main` carries an annotation and was skipped:
\* `main` has the body of the first and no type
C19_Witness ==
    /\ last.op = "lower_global" /\ last.ref = Def("main", TRUE)
    /\ stack = <<>>
    /\ "main" \in DOMAIN bodies.global_bodies
    /\ "main" \notin DOMAIN bodies.global_tys

\* lower() has returned
LowerReturned == root = <<>> /\ stack = <<>>

\* C20: lowering is total: after lower() every top-level definition of the
\* file that has a name has a global (has_global is true), whatever
\* diagnostics were emitted; a diagnostic does not stop the lowering of the
\* definitions after it.
C20_EveryNamedDefinitionHasGlobal ==
    LowerReturned => \A name \in index : name \in DOMAIN bodies.global_bodies

\* lower() has returned for a file of two named definitions: the value of
\* the first is an undefined name, reported and lowered to Missing, and the
\* second was lowered after it
C20_Witness ==
    /\ LowerReturned
    /\ Cardinality(index) = 2
    /\ diagnostics # <<>>
    /\ bodies.exprs[1] = ExprMissing
    /\ \E name \in index : bodies.exprs[bodies.global_bodies[name] + 1] # ExprMissing

(***************************************************************************)
(* Claims about the expression arena                                       *)
(***************************************************************************)
\* the indices an Option<Idx> holds
OptionSet(option) == IF option = None THEN {} ELSE {option[1]}

\* the expressions a statement holds: its expression, or the annotation and
\* the value of the local it defines
StmtExprs(b, stmt) ==
    IF b.stmts[stmt + 1].tag = "Expr"
    THEN {b.stmts[stmt + 1].expr}
    ELSE LET def == b.local_defs[b.stmts[stmt + 1].def + 1]
         IN  {def.value} \cup OptionSet(def.ty)

\* the sub-expressions of an expression of the Bodies
SubExprs(b, expr) ==
    CASE expr.tag = "Block" ->
             UNION {StmtExprs(b, expr.stmts[i]) : i \in 1 .. Len(expr.stmts)}
             \cup OptionSet(expr.tail_expr)
      [] expr.tag = "Lambda" ->
             LET lambda == b.lambdas[expr.lambda + 1]
             IN  {lambda.params[i].ty : i \in 1 .. Len(lambda.params)}
                 \cup OptionSet(lambda.return_ty) \cup {lambda.body}
      [] expr.tag = "Comptime" -> {b.comptimes[expr.comptime + 1].body}
      [] expr.tag = "Array" ->
             {expr.ty} \cup (IF expr.items = None THEN {} ELSE Range(expr.items[1]))
      [] expr.tag = "Distinct" -> {expr.ty}
      [] expr.tag = "StructDecl" -> {expr.fields[i][2] : i \in 1 .. Len(expr.fields)}
      [] OTHER -> {}

\* the indices of the expressions allocated so far
ExprIdxs == 0 .. Len(bodies.exprs) - 1

\* the range `outer` encloses the range `inner`
Encloses(outer, inner) == outer.start <= inner.start /\ inner.end <= outer.end

\* C21: the range map is total on the expression arena: range_for_expr is
\* defined for every expression allocated during lowering, the Missing
\* placeholders of absent sub-expressions included, and the range of an
\* expression encloses the ranges of all its sub-expressions.
C21_RangeMapTotal ==
    /\ \A e \in ExprIdxs : e \in DOMAIN bodies.expr_ranges
    /\ \A e \in ExprIdxs : \A sub \in SubExprs(bodies, bodies.exprs[e + 1]) :
           /\ e \in DOMAIN bodies.expr_ranges
           /\ sub \in DOMAIN bodies.expr_ranges
           /\ Encloses(bodies.expr_ranges[e], bodies.expr_ranges[sub])

(***************************************************************************)
(* Claims about the code-generation driver                                 *)
(***************************************************************************)
RECURSIVE ReachableFrom(_)
\* the functions the calls lead to from the functions in `seen`
ReachableFrom(seen) ==
    LET more == seen \cup {callee \in Fqns :
                    \E fqn \in seen : callee \in Range(program.fns[fqn].calls)}
    IN IF more = seen THEN seen ELSE ReachableFrom(more)

\* the functions with a body that are reachable from the entry point
ReachableBodies ==
    {fqn \in ReachableFrom({program.entry_point}) : ~program.fns[fqn].is_extern}

TimesDefined(fqn) ==
    IF MangledName(fqn) \in DOMAIN module.definitions
       THEN module.definitions[MangledName(fqn)]
       ELSE 0

ExternEntry == program.fns[program.entry_point].is_extern

\* C22, as stated: for every call graph and every entry point, each Fqn is
\* pushed onto functions_to_compile at most once, no function is defined
\* twice, and when `main` is synthesized every reachable function with a
\* body has been defined exactly once and the worklist is empty.
C22_PushedOnceAndDrained ==
    /\ \A fqn \in DOMAIN pushes : pushes[fqn] <= 1
    /\ \A fqn \in Fqns : TimesDefined(fqn) <= 1
    /\ driver.pc \in {"main", "done"} =>
          /\ \A fqn \in ReachableBodies : TimesDefined(fqn) = 1
          /\ functions_to_compile = <<>>

\* C22, amended: the above holds when the entry point has a body.  An
\* extern entry point is never put into `functions` by compile_function, so
\* generate_main_function's get_func_id pushes it a second time and it is
\* still on the worklist when `main` has been synthesized; every other Fqn
\* is pushed at most once, and the bodies are defined exactly once.
C22_PushedOnceUnlessExternEntry ==
    /\ \A fqn \in DOMAIN pushes :
          pushes[fqn] <= (IF ExternEntry /\ fqn = program.entry_point /\ driver.pc = "done"
                             THEN 2 ELSE 1)
    /\ \A fqn \in Fqns : TimesDefined(fqn) <= 1
    /\ driver.pc \in {"main", "done"} =>
          \A fqn \in ReachableBodies : TimesDefined(fqn) = 1
    /\ driver.pc = "main" => functions_to_compile = <<>>
    /\ driver.pc = "done" =>
          /\ functions_to_compile = IF ExternEntry THEN <<program.entry_point>> ELSE <<>>
          /\ ExternEntry => pushes[program.entry_point] = 2

\* `main` is synthesized for an entry point with a body that calls f, where
\* f calls itself and g, and g calls the entry point
C22_Witness ==
    /\ driver.pc = "done"
    /\ ~ExternEntry
    /\ program.fns["entry"].calls = <<"f", "f">>
    /\ program.fns["f"].calls = <<"f", "g">>
    /\ program.fns["g"].calls = <<"entry">>
    /\ functions_to_compile = <<>>

\* C23: the synthesized `main` returns the entry point's integer result
\* adjusted to the pointer width: bit i of the exit code is bit i of the
\* result where the result has such a bit and 0 above it (zero-extended when
\* narrower, unchanged when as wide, the low bits when wider), whether the
\* type is signed or not; it returns 0 when the return type is no integer.
C23_ExitCodeIsResultAtPointerWidth ==
    module.main # None =>
        LET return_ty == program.fns[program.entry_point].return_ty
            result == module.main[1].result
            exit_code == module.main[1].exit_code
        IN /\ Len(exit_code) = program.pointer_bits
           /\ \A i \in 1 .. program.pointer_bits :
                 exit_code[i] =
                    IF IsInt(return_ty) /\ i <= return_ty.w THEN result[i] ELSE 0

\* `main` was synthesized for an entry point that returns an i32 with every
\* bit set, on a target with 64-bit pointers
C23_Witness ==
    /\ driver.pc = "done"
    /\ program.pointer_bits = 64
    /\ program.fns[program.entry_point].return_ty = IInt(32)
    /\ module.main[1].result = [i \in 1 .. 32 |-> 1]
    /\ module.main[1].exit_code[64] = 0
(***************************************************************************)
(* Claims about the comptime cache                                         *)
(***************************************************************************)
\* C24: each comptime block is run at most once in a compilation: a block is
\* in the cache exactly when it was run once, a demand for a cached block
\* (from inference, the sweep after it, or the code generation) runs nothing
\* and returns the cached value, and an entry of the cache never changes.
C24_RunAtMostOnce ==
    [][/\ \A comptime \in Range(Comptimes) :
             /\ comptime_runs'[comptime] <= 1
             /\ comptime \in DOMAIN comptime_results' <=> comptime_runs'[comptime] = 1
       /\ \A comptime \in DOMAIN comptime_results :
             /\ comptime \in DOMAIN comptime_results'
             /\ comptime_results'[comptime] = comptime_results[comptime]
             /\ comptime_runs'[comptime] = comptime_runs[comptime]
       /\ comptime_stage'.demanded # None =>
             /\ comptime_stage'.returned =
                   Some(comptime_results'[comptime_stage'.demanded[1]])
             /\ comptime_stage'.cached =>
                   comptime_stage'.returned =
                       Some(comptime_results[comptime_stage'.demanded[1]])]_vars

\* inference demands `foo` again when it is in the cache, and gets the value
\* of the one run, while `bar` has not been run
C24_Witness ==
    /\ comptime_stage.pass = "inference"
    /\ comptime_stage.demanded = Some("foo")
    /\ comptime_stage.cached
    /\ comptime_stage.returned = Some([block |-> "foo", run |-> 1])
    /\ comptime_runs["foo"] = 1
    /\ comptime_runs["bar"] = 0
(***************************************************************************)
(* Claims about the context of lambdas and comptime blocks                 *)
(***************************************************************************)
\* lower_lambda or lower_comptime returns in this step
ReturnsFromBody ==
    /\ stack # <<>>
    /\ Top.kind \in {"lambda_body", "comptime"}
    /\ stack' = Pop(stack)

\* the local definitions the scopes make visible
VisibleLocals(scope_stack) ==
    UNION {{scope_stack[i][key] : key \in DOMAIN scope_stack[i]} :
                i \in 1 .. Len(scope_stack)}

\* C25: when lower_lambda or lower_comptime returns, the scope stack and the
\* parameter map are those of the moment it was called, at any nesting, and
\* no local definition made inside is visible.
C25_ContextRestored ==
    [][ReturnsFromBody =>
          /\ scopes' = Top.at_call.scopes
          /\ params' = Top.at_call.params
          /\ \A local_def \in VisibleLocals(scopes') :
                local_def < Top.at_call.local_defs]_vars

\* a lambda written in a block after a local definition has been lowered:
\* the block's scope with the definition is back, while the lambda's body
\* was lowered with no scope
C25_Witness ==
    /\ last.op = "lambda_end"
    /\ scopes # <<>>
    /\ VisibleLocals(scopes) # {}
    /\ bodies.lambdas # <<>>
(***************************************************************************)
(* Claims about max_cast and can_fit together                              *)
(***************************************************************************)
\* C26: max_cast gives the same result for its arguments in either order,
\* and when neither argument is Unknown and the result is Some(c), both
\* arguments fit into c by can_fit.
C26_MaxCastFitsBoth ==
    IsMaxCast =>
        LET first == cast_call.first
            second == cast_call.second
        IN /\ MaxCast(second, first) = cast_call.result
           /\ (first # Unknown /\ second # Unknown /\ cast_call.result # None) =>
                 /\ CanFit(resolved_arena, first, cast_call.result[1]) = Ok(TRUE)
                 /\ CanFit(resolved_arena, second, cast_call.result[1]) = Ok(TRUE)

\* max_cast of the weak uint and a signed integer was called and gave the
\* signed integer
C26_Witness ==
    /\ IsMaxCast
    /\ cast_call.first = UInt(0)
    /\ cast_call.second = IInt(MaxWidth)
    /\ cast_call.result = Some(IInt(MaxWidth))
(***************************************************************************)
(* Claims about markers                                                    *)
(***************************************************************************)
\* C27: whenever Marker::complete runs, the slot at the marker's position
\* holds the empty placeholder, in every order of start, complete and
\* precede.
C27_SlotIsEmptyAtComplete ==
    parser_last.op \in {"complete", "panicked"} => parser_last.old_event = None

\* the number of events with the tag among the first n
RECURSIVE CountTag(_, _, _)
CountTag(evs, tag, n) ==
    IF n = 0 THEN 0
    ELSE CountTag(evs, tag, n - 1)
            + (IF evs[n] # None /\ evs[n][1].tag = tag THEN 1 ELSE 0)

\* no empty slot is left, every FinishNode closes a StartNode before it, and
\* every StartNode is closed
BalancedAndNested(evs) ==
    /\ \A n \in 1 .. Len(evs) :
          /\ evs[n] # None
          /\ CountTag(evs, "FinishNode", n) <= CountTag(evs, "StartNode", n)
    /\ CountTag(evs, "FinishNode", Len(evs)) = CountTag(evs, "StartNode", Len(evs))

\* complete is called on the marker that precede has just returned
CompletesPreceding(marker) ==
    /\ marker \in markers
    /\ marker.of # None
    /\ parser_last = Called("precede", marker.id, None)
    /\ parser_last'.op \in {"complete", "panicked"}
    /\ parser_last'.id = marker.id

\* C28: precede on a completed marker at p followed by complete(kind) wraps
\* the node: the new StartNode is at p, the StartNode of the node at p + 1,
\* and the new FinishNode is the last event; and once every marker is
\* completed the StartNode and FinishNode events are balanced and nested.
C28_PrecedeWraps ==
    [][/\ \A marker \in markers :
             CompletesPreceding(marker) =>
                /\ EventAt(events', marker.pos) = Some(StartNode(marker.id))
                /\ EventAt(events', marker.pos + 1) = Some(StartNode(marker.of[1]))
                /\ events'[Len(events')] = Some(FinishNode)
       /\ (markers' = {} /\ parser_last'.op # "panicked") =>
             BalancedAndNested(events')]_vars

\* the same, for runs in which no position went stale: the completed marker
\* still points at its StartNode when precede is called, and no complete has
\* found its slot taken
C28_PrecedeWrapsInPlace ==
    [][/\ \A marker \in markers :
             (/\ CompletesPreceding(marker)
              /\ EventAt(events, marker.pos + 1) = Some(StartNode(marker.of[1]))) =>
                /\ EventAt(events', marker.pos) = Some(StartNode(marker.id))
                /\ EventAt(events', marker.pos + 1) = Some(StartNode(marker.of[1]))
                /\ events'[Len(events')] = Some(FinishNode)]_vars

\* the arena `after` still holds every entry of `before`, at its index
KeepsEntries(before, after) ==
    /\ Len(after) >= Len(before)
    /\ SubSeq(after, 1, Len(before)) = before

\* C29: the sub-expressions of every expression (the types of a lambda's
\* parameters, its return type and its body included) have smaller indices
\* than the expression itself, so the expressions form no cycle, and an
\* entry of an arena, once allocated, is never overwritten.
C29_ChildrenBeforeParents ==
    [][/\ KeepsEntries(bodies.exprs, bodies'.exprs)
       /\ KeepsEntries(bodies.lambdas, bodies'.lambdas)
       /\ KeepsEntries(bodies.comptimes, bodies'.comptimes)
       /\ KeepsEntries(bodies.local_defs, bodies'.local_defs)
       /\ KeepsEntries(bodies.stmts, bodies'.stmts)
       /\ \A e \in 0 .. Len(bodies'.exprs) - 1 :
             \A sub \in SubExprs(bodies', bodies'.exprs[e + 1]) : sub < e]_vars

\* a lambda with a parameter, a return type and a body is allocated after
\* its three sub-expressions
C29_Witness ==
    /\ Len(bodies.exprs) = 4
    /\ bodies.exprs[4].tag = "Lambda"
    /\ SubExprs(bodies, bodies.exprs[4]) = {0, 1, 2}

\* C30: compile_queued_functions terminates on every call graph, recursive
\* ones included: the worklist drains, finish() goes on to
\* generate_main_function and `main` is synthesized.
C30_DriverTerminates == <>(driver.pc = "done" /\ module.main # None)

\* `main` is synthesized for a program in which f calls itself and f and g
\* call each other
C30_Witness ==
    /\ driver.pc = "done"
    /\ program.fns["entry"].calls = <<"f", "g">>
    /\ program.fns["f"].calls = <<"f", "g">>
    /\ program.fns["g"].calls = <<"f">>
    /\ module.main # None
====
